---- MODULE Spec2Model ----
(***************************************************************************)
(* A model of MyTube (src/app.py): a Flask video gallery over SQLite or    *)
(* Postgres.  Every request runs as a process that executes the handler's  *)
(* database statements one at a time against a shared store; statements   *)
(* of different requests interleave.  Text is modelled as sequences of     *)
(* one-character strings so that strip(), slicing and URL parsing are      *)
(* computed, not assumed.                                                  *)
(***************************************************************************)
EXTENDS Integers, Sequences, FiniteSets, TLC

(***************************************************************************)
(* Bounds of the model                                                     *)
(***************************************************************************)
\* number of concurrent request processes in the concurrent specifications
NumProcs == 2
\* video ids that requests may name (ids are allocated 1, 2, ...)
MaxVideos == 2
\* requests handled in one behaviour of the sequential ledger specification
MaxReqs == 4

\* requests begun in a behaviour of the comment specification
MaxCommentReqs == 3

\* requests begun in a behaviour of the playlist-editing specification
MaxPlaylistReqs == 5

\* videos in the tables the playlist-walking specification starts from
MaxNextVideos == 3

\* requests begun in a behaviour of the playlist-walking specification
MaxNextReqs == 1

\* requests begun in a behaviour of the concurrent specification
MaxConcReqs == 3

(***************************************************************************)
(* Program constants                                                       *)
(***************************************************************************)
\* author[:50] and body[:1000] in comment()
AuthorMax == 50
BodyMax == 1000

(***************************************************************************)
(* Text helpers                                                            *)
(***************************************************************************)
\* Python's None for text values: a sequence no text equals
None == <<"None">>

Min(a, b) == IF a < b THEN a ELSE b

Max(a, b) == IF a < b THEN b ELSE a

\* characters str.strip() removes
Whitespace == {" ", "\t", "\n", "\r"}

\* s[i:] (0-based i) as a sequence
Drop(s, n) == SubSeq(s, n + 1, Len(s))

\* s[:n]
Take(s, n) == SubSeq(s, 1, Min(n, Len(s)))

\* c repeated n times
Rep(c, n) == [i \in 1..n |-> c]

\* the least and the greatest element of a non-empty set of integers
MinOf(S) == CHOOSE i \in S : \A j \in S : i <= j

MaxOf(S) == CHOOSE i \in S : \A j \in S : j <= i

\* s between the first and the last position in keep, "" when keep is empty
Between(s, keep) == IF keep = {} THEN <<>> ELSE SubSeq(s, MinOf(keep), MaxOf(keep))

\* str.strip(): remove leading and trailing whitespace
Strip(s) ==
    LET first == CHOOSE i \in 1..(Len(s) + 1) :
                     /\ i = Len(s) + 1 \/ s[i] \notin Whitespace
                     /\ \A j \in 1..(i - 1) : s[j] \in Whitespace
        last  == CHOOSE i \in 0..Len(s) :
                     /\ i = 0 \/ s[i] \notin Whitespace
                     /\ \A j \in (i + 1)..Len(s) : s[j] \in Whitespace
    IN  SubSeq(s, first, last)

\* x or d
OrElse(x, d) == IF x = None \/ x = <<>> THEN d ELSE x

UpperChars == <<"A","B","C","D","E","F","G","H","I","J","K","L","M",
                "N","O","P","Q","R","S","T","U","V","W","X","Y","Z">>

LowerChars == <<"a","b","c","d","e","f","g","h","i","j","k","l","m",
                "n","o","p","q","r","s","t","u","v","w","x","y","z">>

LowerChar(c) ==
    IF \E i \in 1..26 : UpperChars[i] = c
    THEN LowerChars[CHOOSE i \in 1..26 : UpperChars[i] = c]
    ELSE c

\* str.lower()
Lower(s) == [i \in 1..Len(s) |-> LowerChar(s[i])]

Digits == {"0","1","2","3","4","5","6","7","8","9"}

\* whether sub occurs in s at position i (1-based)
MatchAt(s, sub, i) ==
    /\ i >= 1
    /\ i + Len(sub) - 1 <= Len(s)
    /\ SubSeq(s, i, i + Len(sub) - 1) = sub

\* the positions (1-based) at which sub occurs in s
Occurrences(s, sub) == {i \in 1..(Len(s) + 1) : MatchAt(s, sub, i)}

\* sub in s
Contains(s, sub) == Occurrences(s, sub) # {}

\* the least element of S, or d when S is empty
MinOr(S, d) == IF S = {} THEN d ELSE MinOf(S)

\* the greatest element of S, or d when S is empty
MaxOr(S, d) == IF S = {} THEN d ELSE MaxOf(S)

\* str.find(): first position (1-based) of sub in s, 0 when absent
Find(s, sub) == MinOr(Occurrences(s, sub), 0)

\* first position >= from of a character in cs, Len(s)+1 when there is none
FirstOf(s, cs, from) == MinOr({i \in from..Len(s) : s[i] \in cs}, Len(s) + 1)

\* the longest run of characters not in stop, starting at from
RunNotIn(s, stop, from) == SubSeq(s, from, FirstOf(s, stop, from) - 1)

\* the longest run of characters in cs, starting at from
RunIn(s, cs, from) ==
    SubSeq(s, from, MinOr({i \in from..Len(s) : s[i] \notin cs}, Len(s) + 1) - 1)

\* s cut at position i (1-based) of a separator: the head, then the split rest
RECURSIVE SplitAt(_, _, _)
SplitAt(s, sep, i) ==
    IF i > Len(s) THEN <<s>>
    ELSE <<SubSeq(s, 1, i - 1)>>
         \o SplitAt(Drop(s, i), sep, FirstOf(Drop(s, i), {sep}, 1))

\* str.split(sep) for a one-character separator
Split(s, sep) == SplitAt(s, sep, FirstOf(s, {sep}, 1))

\* str.strip("/")
StripSlash(s) == Between(s, {i \in 1..Len(s) : s[i] # "/"})

\* the group of the first match among the match positions hits
GroupAt(s, stop, hits, skip) ==
    IF hits = {} THEN None ELSE RunNotIn(s, stop, MinOf(hits) + skip)

\* re.search(prefix + "([^/?]+)", s).group(1), None when there is no match
SearchSegment(s, prefix) ==
    GroupAt(s, {"/", "?"},
            {i \in 1..Len(s) : /\ MatchAt(s, prefix, i)
                               /\ i + Len(prefix) <= Len(s)
                               /\ s[i + Len(prefix)] \notin {"/", "?"}},
            Len(prefix))

\* the digits of the first match among the match positions hits
DigitsAt(s, hits) == IF hits = {} THEN None ELSE RunIn(s, Digits, MinOf(hits) + 1)

\* re.search(r"/(\d+)", s).group(1), None when there is no match
SearchDigits(s) ==
    DigitsAt(s, {i \in 1..(Len(s) - 1) : s[i] = "/" /\ s[i + 1] \in Digits})

(***************************************************************************)
(* urllib.parse as normalize_embed uses it                                 *)
(***************************************************************************)
Letters == {UpperChars[i] : i \in 1..26} \cup {LowerChars[i] : i \in 1..26}

SchemeChars == Letters \cup Digits \cup {"+", "-", "."}

\* whether the text before the ":" at position i is a scheme
IsSchemeEnd(url, i) ==
    /\ i > 1
    /\ url[1] \in Letters
    /\ \A j \in 1..(i - 1) : url[j] \in SchemeChars

\* urlsplit's scheme ends before position SchemeEnd(url); 0: no scheme
SchemeEndAt(url, i) == IF IsSchemeEnd(url, i) THEN i ELSE 0

SchemeEnd(url) == SchemeEndAt(url, Find(url, <<":">>))

\* the schemes whose last path segment loses its ";parameters"
UsesParams == {<<>>, <<"h","t","t","p">>, <<"h","t","t","p","s">>, <<"f","t","p">>}

\* _splitparams(): the path without the parameters of its last segment
PathOf(scheme, r4) ==
    IF scheme \in UsesParams
    THEN SubSeq(r4, 1, FirstOf(r4, {";"}, MaxOr({j \in 1..Len(r4) : r4[j] = "/"}, 1)) - 1)
    ELSE r4

\* the path and the query of r3, whose first "?" is at qm
ParseQuery(scheme, netloc, r3, qm) ==
    [scheme |-> scheme, netloc |-> netloc,
     path |-> PathOf(scheme, SubSeq(r3, 1, qm - 1)), query |-> Drop(r3, qm)]

\* the fragment is cut off r2
ParseFragment(scheme, netloc, r3) == ParseQuery(scheme, netloc, r3, FirstOf(r3, {"?"}, 1))

\* the netloc of r1 (what follows the scheme) ends before delim
ParseNetloc(scheme, r1, hasNet, delim) ==
    ParseFragment(scheme,
                  IF hasNet THEN SubSeq(r1, 3, delim - 1) ELSE <<>>,
                  RunNotIn(IF hasNet THEN Drop(r1, delim - 1) ELSE r1, {"#"}, 1))

ParseScheme(scheme, r1) ==
    ParseNetloc(scheme, r1, MatchAt(r1, <<"/", "/">>, 1), FirstOf(r1, {"/", "?", "#"}, 3))

ParseFrom(url, se) ==
    ParseScheme(IF se > 0 THEN Lower(SubSeq(url, 1, se - 1)) ELSE <<>>,
                IF se > 0 THEN Drop(url, se) ELSE url)

\* urlparse(url): scheme, netloc, path and query (params and fragment dropped)
UrlParse(url) == ParseFrom(url, SchemeEnd(url))

\* the host of hostinfo (the netloc after its last "@"): the bracketed
\* address, else the text before the first ":"
HostOf(hostinfo, open) ==
    IF open <= Len(hostinfo)
    THEN RunNotIn(hostinfo, {"]"}, open + 1)
    ELSE RunNotIn(hostinfo, {":"}, 1)

HostInfo(hostinfo) == Lower(HostOf(hostinfo, FirstOf(hostinfo, {"["}, 1)))

\* (parsed.hostname or "").lower()
Hostname(netloc) ==
    HostInfo(Drop(netloc, MaxOr({j \in 1..Len(netloc) : netloc[j] = "@"}, 0)))

\* "+" decoded as a space (percent-escapes are not decoded: the URLs the
\* model enumerates hold none)
QsUnquote(s) == [i \in 1..Len(s) |-> IF s[i] = "+" THEN " " ELSE s[i]]

\* the name and the value of one "name=value" field whose "=" is at eq
QsKey(f, eq) == QsUnquote(SubSeq(f, 1, eq - 1))

QsVal(f, eq) == QsUnquote(Drop(f, eq))

\* the field gives name a non-blank value
QsHit(f, name, eq) == eq <= Len(f) /\ QsVal(f, eq) # <<>> /\ QsKey(f, eq) = name

QsValueOf(f) == QsVal(f, FirstOf(f, {"="}, 1))

QsPick(fields, hits) == IF hits = {} THEN None ELSE QsValueOf(fields[MinOf(hits)])

QsFields(fields, name) ==
    QsPick(fields, {i \in 1..Len(fields) :
                       QsHit(fields[i], name, FirstOf(fields[i], {"="}, 1))})

\* (parse_qs(query).get(name) or [None])[0]: the first non-blank value of name
QsFirst(query, name) == QsFields(Split(query, "&"), name)

(***************************************************************************)
(* URL -> embed conversion                                                 *)
(***************************************************************************)
Str_reddit_com  == <<"r","e","d","d","i","t",".","c","o","m">>
Str_redd_it     == <<"r","e","d","d",".","i","t">>
Str_tiktok_com  == <<"t","i","k","t","o","k",".","c","o","m">>
Str_youtube_com == <<"y","o","u","t","u","b","e",".","c","o","m">>
Str_youtu_be    == <<"y","o","u","t","u",".","b","e">>
Str_vimeo_com   == <<"v","i","m","e","o",".","c","o","m">>
Str_loom_com    == <<"l","o","o","m",".","c","o","m">>
Str_shorts      == <<"/","s","h","o","r","t","s","/">>
Str_share       == <<"/","s","h","a","r","e","/">>
YoutubeEmbedPrefix ==
    <<"h","t","t","p","s",":","/","/","w","w","w",".","y","o","u","t","u","b","e",
      ".","c","o","m","/","e","m","b","e","d","/">>
VimeoEmbedPrefix ==
    <<"h","t","t","p","s",":","/","/","p","l","a","y","e","r",".","v","i","m","e","o",
      ".","c","o","m","/","v","i","d","e","o","/">>
LoomEmbedPrefix ==
    <<"h","t","t","p","s",":","/","/","w","w","w",".","l","o","o","m",
      ".","c","o","m","/","e","m","b","e","d","/">>

\* an id extraction that does not look for /shorts/<id>
YoutubeIdNoShorts(v, path) == v

\* vid = (qs.get("v") or [None])[0], else the /shorts/<id> segment
YoutubeIdOr(v, path) == IF v # None THEN v ELSE SearchSegment(path, Str_shorts)

\* the id normalize_embed extracts from a youtube.com URL, None when there is none
YoutubeId(parsed) == YoutubeIdOr(QsFirst(parsed.query, <<"v">>), parsed.path)

\* a normalize_embed for which a youtube.com host without an id is still
\* youtube
NormalizeWithYoutubeHost(url, host, ytid, beid, vmid, lmid) ==
    IF Contains(host, Str_reddit_com) \/ Contains(host, Str_redd_it)
      THEN <<"reddit", url>>
    ELSE IF Contains(host, Str_tiktok_com)
      THEN <<"tiktok", url>>
    ELSE IF Contains(host, Str_youtube_com)
      THEN <<"youtube", IF ytid # None THEN YoutubeEmbedPrefix \o ytid ELSE url>>
    ELSE IF Contains(host, Str_youtu_be) /\ beid # <<>>
      THEN <<"youtube", YoutubeEmbedPrefix \o beid>>
    ELSE IF Contains(host, Str_vimeo_com) /\ vmid # None
      THEN <<"vimeo", VimeoEmbedPrefix \o vmid>>
    ELSE IF Contains(host, Str_loom_com) /\ lmid # None
      THEN <<"loom", LoomEmbedPrefix \o lmid>>
    ELSE <<"custom", url>>

\* the rules of normalize_embed in order, given the host and the ids found
NormalizeWith(url, host, ytid, beid, vmid, lmid) ==
    IF Contains(host, Str_reddit_com) \/ Contains(host, Str_redd_it)
      THEN <<"reddit", url>>
    ELSE IF Contains(host, Str_tiktok_com)
      THEN <<"tiktok", url>>
    ELSE IF Contains(host, Str_youtube_com) /\ ytid # None
      THEN <<"youtube", YoutubeEmbedPrefix \o ytid>>
    ELSE IF Contains(host, Str_youtu_be) /\ beid # <<>>
      THEN <<"youtube", YoutubeEmbedPrefix \o beid>>
    ELSE IF Contains(host, Str_vimeo_com) /\ vmid # None
      THEN <<"vimeo", VimeoEmbedPrefix \o vmid>>
    ELSE IF Contains(host, Str_loom_com) /\ lmid # None
      THEN <<"loom", LoomEmbedPrefix \o lmid>>
    ELSE <<"custom", url>>

NormalizeParsed(url, parsed) ==
    NormalizeWith(url, Hostname(parsed.netloc), YoutubeId(parsed),
                  Split(StripSlash(parsed.path), "/")[1],
                  SearchDigits(parsed.path),
                  SearchSegment(parsed.path, Str_share))

NormalizeUrl(url) == NormalizeParsed(url, UrlParse(url))

\* normalize_embed(source_url) for a non-blank url: <<provider, embed_url>>
normalize_embed(source_url) == NormalizeUrl(Strip(source_url))

\* a force_provider_embed whose auto branch keeps the provider when the oEmbed
\* call fails
ForceWithKeepsProvider(provider_choice, url, ne, html) ==
    IF provider_choice \in {"", "auto"}
      THEN IF ne[1] \in {"reddit", "tiktok"} THEN <<ne[1], ne[2], html>>
           ELSE <<ne[1], ne[2], <<>>>>
    ELSE IF provider_choice \in {"reddit", "tiktok"}
      THEN IF html # <<>> THEN <<provider_choice, url, html>>
           ELSE <<"custom", url, <<>>>>
    ELSE IF provider_choice \in {"youtube", "vimeo", "loom"}
      THEN IF ne[1] = provider_choice
           THEN <<provider_choice, ne[2], <<>>>>
           ELSE <<provider_choice, url, <<>>>>
    ELSE <<"custom", url, <<>>>>

\* a force_provider_embed whose youtube, vimeo and loom branches take
\* normalize_embed's URL whatever provider it found
ForceWithAnyCanonical(provider_choice, url, ne, html) ==
    IF provider_choice \in {"", "auto"}
      THEN IF ne[1] \in {"reddit", "tiktok"}
           THEN IF html # <<>> THEN <<ne[1], ne[2], html>>
                ELSE <<"custom", ne[2], <<>>>>
           ELSE <<ne[1], ne[2], <<>>>>
    ELSE IF provider_choice \in {"reddit", "tiktok"}
      THEN IF html # <<>> THEN <<provider_choice, url, html>>
           ELSE <<"custom", url, <<>>>>
    ELSE IF provider_choice \in {"youtube", "vimeo", "loom"}
      THEN <<provider_choice, ne[2], <<>>>>
    ELSE <<"custom", url, <<>>>>

\* the branches of force_provider_embed, given normalize_embed's answer ne and
\* the markup html the oEmbed call gives ("" when it fails)
ForceWith(provider_choice, url, ne, html) ==
    IF provider_choice \in {"", "auto"}
      THEN IF ne[1] \in {"reddit", "tiktok"}
           THEN IF html # <<>> THEN <<ne[1], ne[2], html>>
                ELSE <<"custom", ne[2], <<>>>>
           ELSE <<ne[1], ne[2], <<>>>>
    ELSE IF provider_choice \in {"reddit", "tiktok"}
      THEN IF html # <<>> THEN <<provider_choice, url, html>>
           ELSE <<"custom", url, <<>>>>
    ELSE IF provider_choice \in {"youtube", "vimeo", "loom"}
      THEN IF ne[1] = provider_choice
           THEN <<provider_choice, ne[2], <<>>>>
           ELSE <<provider_choice, url, <<>>>>
    ELSE <<"custom", url, <<>>>>

ForceUrl(provider_choice, url, fetched) ==
    ForceWith(provider_choice, url, normalize_embed(url), OrElse(fetched, <<>>))

\* force_provider_embed(provider_choice, source_url): <<provider, embed_url,
\* embed_html>>; fetched is what the oEmbed call returns when it is made (None
\* on any failure)
force_provider_embed(provider_choice, source_url, fetched) ==
    ForceUrl(provider_choice, Strip(source_url), fetched)

\* a force_provider_embed that asks the oEmbed endpoint only for URLs
\* normalize_embed takes for the provider's own
OembedCallsResolved(provider_choice, ne) ==
    IF ne[1] \in {"reddit", "tiktok"} /\ provider_choice \in {"", "auto", ne[1]}
      THEN <<ne[1]>>
    ELSE <<>>

\* the oEmbed helpers force_provider_embed calls, in order, given
\* normalize_embed's answer ne: reddit_oembed_html and tiktok_oembed_html
OembedCallsWith(provider_choice, ne) ==
    IF provider_choice \in {"", "auto"}
      THEN IF ne[1] \in {"reddit", "tiktok"} THEN <<ne[1]>> ELSE <<>>
    ELSE IF provider_choice \in {"reddit", "tiktok"}
      THEN <<provider_choice>>
    ELSE <<>>

oembed_calls(provider_choice, source_url) ==
    OembedCallsWith(provider_choice, normalize_embed(source_url))

(***************************************************************************)
(* State                                                                   *)
(***************************************************************************)
VARIABLES
    backend,   \* IS_PG: "pg" when DATABASE_URL is set, else "sqlite"
    db,        \* the committed contents of the tables
    seqs,      \* the AUTOINCREMENT / SERIAL counters of videos and playlists
    pc,        \* per request process: the statement it executes next
    req,       \* per process: the request (route, session, form and query fields)
    loc,       \* per process: the handler's local variables
    tx,        \* per process: the statements of its open transaction, in order
    locks,     \* per process: the database locks its connection holds
    aborted,   \* per process: Postgres transaction in the failed state
    resp,      \* per process: the response of the request, once it is made
    start,     \* per process: the committed tables when the request began
    nreq       \* number of requests begun so far

vars == <<backend, db, seqs, pc, req, loc, tx, locks, aborted, resp, start, nreq>>

Procs == 1..NumProcs

VideoIds == 1..MaxVideos

\* MYTUBE_ADMIN_USER, default "admin"
ADMIN_USERNAME == <<"a","d","m","i","n">>

\* MYTUBE_ADMIN_PASS, default "admin"
ADMIN_PASSWORD == <<"a","d","m","i","n">>

\* werkzeug's generate_password_hash: a text under which the password
\* checks and which is not the password
generate_password_hash(password) == <<"p","b","k","d","f","2",":">> \o password

IS_PG == backend = "pg"

\* session.get("lang") is absent or one of SUPPORTED_LANGS (set_lang stores no other)
SUPPORTED_LANGS == {"sv", "en"}

\* get_lang(): (session.get("lang") or "sv"), "sv" unless supported
get_lang(session_lang) ==
    LET lang == IF session_lang = "" THEN "sv" ELSE session_lang
    IN  IF lang \in SUPPORTED_LANGS THEN lang ELSE "sv"

\* I18N[lang]["anon"]
I18N_anon == [sv |-> <<"A","n","o","n","y","m">>,
              en |-> <<"A","n","o","n","y","m","o","u","s">>]

\* t("anon") under the session's language
t_anon(session_lang) == I18N_anon[get_lang(session_lang)]

(***************************************************************************)
(* The tables                                                              *)
(***************************************************************************)
\* a videos row; title, description, thumbnail_url, category and created_at
\* are carried by no statement the model reads and are left out
VideoRow(provider, source_url, embed_url, embed_html) ==
    [views |-> 0, likes |-> 0, provider |-> provider, source_url |-> source_url,
     embed_url |-> embed_url, embed_html |-> embed_html]

\* init_db(): the schema is empty but for the main admin; one registered
\* user stands for the accounts register() has created
InitDb ==
    [videos         |-> <<>>,
     users          |-> (1 :> [username |-> ADMIN_USERNAME, is_admin |-> 1,
                                password_hash |-> generate_password_hash(ADMIN_PASSWORD)])
                        @@ (2 :> [username |-> <<"b","o","b">>, is_admin |-> 0,
                                  password_hash |-> generate_password_hash(<<"b">>)]),
     video_likes    |-> {},
     watch_history  |-> <<>>,
     comments       |-> <<>>,
     playlists      |-> {},
     playlist_items |-> <<>>]

\* f without the keys in ks
Without(f, ks) == [k \in (DOMAIN f) \ ks |-> f[k]]

\* the rows of s whose video_id is not in gone
RECURSIVE FilterSeq(_, _)
FilterSeq(s, gone) ==
    IF s = <<>> THEN <<>>
    ELSE IF Head(s).video_id \in gone THEN FilterSeq(Tail(s), gone)
    ELSE <<Head(s)>> \o FilterSeq(Tail(s), gone)

\* a DELETE FROM videos under a schema without ON DELETE CASCADE and with
\* foreign keys not enforced
DeleteVideoOnly(d, id) == [d EXCEPT !.videos = Without(@, {id})]

\* DELETE FROM videos WHERE id=?, with the ON DELETE CASCADE of comments,
\* watch_history, playlist_items and video_likes (foreign_keys = ON)
DeleteVideo(d, id) ==
    [d EXCEPT
        !.videos         = Without(@, {id}),
        !.video_likes    = {r \in @ : r[2] # id},
        !.watch_history  = Without(@, {k \in DOMAIN @ : k[2] = id}),
        !.comments       = FilterSeq(@, {id}),
        !.playlist_items = Without(@, {k \in DOMAIN @ : k[2] = id})]

\* an upsert whose conflict branch does nothing (INSERT OR IGNORE)
UpsertHistoryIgnore(d, u, v) ==
    IF <<u, v>> \in DOMAIN d.watch_history
    THEN d
    ELSE [d EXCEPT !.watch_history = @ @@ (<<u, v>> :> 1)]

\* INSERT INTO watch_history ... ON CONFLICT(user_id, video_id) DO UPDATE
\*   SET last_watched_at = excluded.last_watched_at, watch_count = watch_count + 1
UpsertHistory(d, u, v) ==
    IF <<u, v>> \in DOMAIN d.watch_history
    THEN [d EXCEPT !.watch_history[<<u, v>>] = @ + 1]
    ELSE [d EXCEPT !.watch_history = @ @@ (<<u, v>> :> 1)]

\* INSERT INTO playlist_items ... ON CONFLICT(playlist_id, video_id)
\*   DO UPDATE SET position = excluded.position
UpsertItem(d, pl, v, position) ==
    IF <<pl, v>> \in DOMAIN d.playlist_items
    THEN [d EXCEPT !.playlist_items[<<pl, v>>] = position]
    ELSE [d EXCEPT !.playlist_items = @ @@ (<<pl, v>> :> position)]

\* the counter update without its WHERE clause: every video's counter moves
IncLikesEveryVideo(d, v) ==
    [d EXCEPT !.videos = [i \in DOMAIN @ |-> [@[i] EXCEPT !.likes = @ + 1]]]

\* UPDATE videos SET likes = likes + 1 WHERE id=?
IncLikes(d, v) ==
    IF v \in DOMAIN d.videos THEN [d EXCEPT !.videos[v].likes = @ + 1] ELSE d

\* UPDATE videos SET views = views + 1 WHERE id=?
IncViews(d, v) ==
    IF v \in DOMAIN d.videos THEN [d EXCEPT !.videos[v].views = @ + 1] ELSE d

\* an UPDATE videos that leaves embed_html as it was
UpdateVideoKeepsMarkup(d, v, e) ==
    IF v \in DOMAIN d.videos
    THEN [d EXCEPT !.videos[v].provider = e.provider,
                   !.videos[v].source_url = e.source_url,
                   !.videos[v].embed_url = e.embed_url]
    ELSE d

\* UPDATE videos SET ..., source_url=?, embed_url=?, provider=?, embed_html=? WHERE id=?
UpdateVideo(d, v, e) ==
    IF v \in DOMAIN d.videos
    THEN [d EXCEPT !.videos[v].provider = e.provider,
                   !.videos[v].source_url = e.source_url,
                   !.videos[v].embed_url = e.embed_url,
                   !.videos[v].embed_html = e.embed_html]
    ELSE d

\* the effect of one write statement w on tables d
Apply(d, w) ==
    CASE w.op = "ins_like"       -> [d EXCEPT !.video_likes = @ \cup {<<w.user_id, w.video_id>>}]
      [] w.op = "inc_likes"      -> IncLikes(d, w.video_id)
      [] w.op = "inc_views"      -> IncViews(d, w.video_id)
      [] w.op = "upsert_history" -> UpsertHistory(d, w.user_id, w.video_id)
      [] w.op = "ins_comment"    -> [d EXCEPT !.comments = Append(@, w.row)]
      [] w.op = "ins_video"      -> [d EXCEPT !.videos = @ @@ (w.video_id :> w.row)]
      [] w.op = "upd_video"      -> UpdateVideo(d, w.video_id, w.row)
      [] w.op = "ins_playlist"   -> [d EXCEPT !.playlists = @ \cup {w.playlist_id}]
      [] w.op = "del_item"       -> [d EXCEPT !.playlist_items =
                                        Without(@, {<<w.playlist_id, w.video_id>>})]
      [] w.op = "upsert_item"    -> UpsertItem(d, w.playlist_id, w.video_id, w.position)
      [] w.op = "del_video"      -> DeleteVideo(d, w.video_id)
      [] w.op = "ins_user"       -> [d EXCEPT !.users = @ @@ (w.user_id :> w.row)]
      [] w.op = "upd_username"   -> [d EXCEPT !.users[w.user_id].username = w.username]
      [] w.op = "upd_is_admin"   -> [d EXCEPT !.users[w.user_id].is_admin = w.is_admin]
      [] w.op = "upd_password"   -> [d EXCEPT !.users[w.user_id].password_hash =
                                                  w.password_hash]

RECURSIVE ApplyAll(_, _)
ApplyAll(d, ws) == IF ws = <<>> THEN d ELSE ApplyAll(Apply(d, Head(ws)), Tail(ws))

\* what the statements of process p read: the committed tables (each statement
\* sees what is committed when it runs) with p's own uncommitted writes
View(p) == ApplyAll(db, tx[p])

(***************************************************************************)
(* Locks.  SQLite has one writer: the first INSERT/UPDATE/DELETE of a      *)
(* transaction takes the database's write lock and keeps it to the commit  *)
(* or the close.  Postgres locks rows and unique-index entries to the end  *)
(* of the transaction.  A statement that needs a lock another connection   *)
(* holds waits for it.                                                     *)
(***************************************************************************)
\* Postgres: the row and index-entry locks statement w takes, given tables d
PgLocks(d, w) ==
    CASE w.op = "ins_like"       -> {<<"like", w.user_id, w.video_id, "row">>,
                                     <<"video", w.video_id, 0, "keyshare">>}
      [] w.op = "inc_likes"      -> IF w.video_id \in DOMAIN d.videos
                                    THEN {<<"video", w.video_id, 0, "update">>} ELSE {}
      [] w.op = "inc_views"      -> IF w.video_id \in DOMAIN d.videos
                                    THEN {<<"video", w.video_id, 0, "update">>} ELSE {}
      [] w.op = "upsert_history" -> {<<"hist", w.user_id, w.video_id, "row">>,
                                     <<"video", w.video_id, 0, "keyshare">>}
      [] w.op = "ins_comment"    -> {<<"video", w.row.video_id, 0, "keyshare">>}
      [] w.op = "ins_video"      -> {}
      [] w.op = "upd_video"      -> IF w.video_id \in DOMAIN d.videos
                                    THEN {<<"video", w.video_id, 0, "update">>} ELSE {}
      [] w.op = "ins_playlist"   -> {}
      [] w.op = "del_item"       -> IF <<w.playlist_id, w.video_id>> \in DOMAIN d.playlist_items
                                    THEN {<<"item", w.playlist_id, w.video_id, "row">>} ELSE {}
      [] w.op = "upsert_item"    -> {<<"item", w.playlist_id, w.video_id, "row">>,
                                     <<"video", w.video_id, 0, "keyshare">>}
      [] w.op = "del_video"      -> IF w.video_id \in DOMAIN d.videos
                                    THEN {<<"video", w.video_id, 0, "delete">>} ELSE {}
      [] w.op \in {"ins_user", "upd_username", "upd_is_admin", "upd_password"}
                                 -> {<<"user", w.user_id, 0, "row">>}

\* the locks statement w of process p takes
LocksOf(p, w) == IF IS_PG THEN PgLocks(View(p), w) ELSE {<<"db", 0, 0, "write">>}

\* whether two locks held by different connections exclude each other: the
\* write lock, a row or an index entry excludes itself; on a videos row a
\* foreign-key check (keyshare) excludes only the row's deletion
Conflict(a, b) ==
    /\ a[1] = b[1]
    /\ a[2] = b[2]
    /\ a[3] = b[3]
    /\ \/ a[1] # "video"
       \/ a[4] = "delete"
       \/ b[4] = "delete"
       \/ (a[4] = "update" /\ b[4] = "update")

\* connections that never wait for one another's locks
NeverWaits(p, w) == FALSE

\* statement w of process p has to wait
Blocked(p, w) ==
    \E q \in Procs \ {p} : \E a \in LocksOf(p, w) : \E b \in locks[q] : Conflict(a, b)

(***************************************************************************)
(* Requests, locals and responses                                          *)
(***************************************************************************)
\* chosen_playlist_id = None
NoPlaylist == [some |-> FALSE, id |-> 0]

NoEmbed == [provider |-> "", source_url |-> <<>>, embed_url |-> <<>>, embed_html |-> <<>>]

NoReq ==
    [op |-> "", session_user |-> 0, session_lang |-> "", video_id |-> 0,
     wants_json |-> FALSE, noview |-> FALSE, author |-> <<>>, body |-> <<>>,
     method |-> "", title |-> <<>>, source_url |-> <<>>, provider |-> "",
     fetched |-> None, playlist_id |-> <<>>, new_playlist_name |-> <<>>,
     playlist_position |-> <<>>, playlist |-> 0,
     user_id |-> 0, username |-> <<>>, password |-> <<>>, is_admin |-> "",
     after |-> "", visited |-> <<>>, password2 |-> <<>>]

NoLoc ==
    [user |-> 0, liked_now |-> FALSE, author |-> <<>>, body |-> <<>>,
     embed |-> NoEmbed, current_pl |-> 0, chosen |-> NoPlaylist, position |-> 1,
     username |-> <<>>]

\* status 0: no response yet
NoResp ==
    [status |-> 0, kind |-> "", flash |-> "", error |-> "", ok |-> FALSE,
     liked |-> FALSE, likes |-> 0, views |-> 0, next |-> 0,
     value |-> <<>>, calls |-> <<>>, location |-> "", noview |-> FALSE]

\* abort(code) and an unhandled exception (500)
Abort(code) == [NoResp EXCEPT !.status = code, !.kind = "abort"]

\* flash(t(key), ...); return redirect(...)
Redirect(key) == [NoResp EXCEPT !.status = 302, !.kind = "redirect", !.flash = key]

\* a redirect to the watch page that counts as a view
RedirectToWatchCounted(key) == [Redirect(key) EXCEPT !.location = "watch"]

\* redirect(url_for("watch", video_id=video_id, noview=1))
RedirectToWatch(key) == [Redirect(key) EXCEPT !.location = "watch", !.noview = TRUE]

\* render_template(...) with an optional flashed message
Page(key) == [NoResp EXCEPT !.status = 200, !.kind = "page", !.flash = key]

\* current_user(): the users row of session["user_id"], 0 for None
current_user(p) ==
    LET uid == req[p].session_user
    IN  IF uid # 0 /\ uid \in DOMAIN View(p).users THEN uid ELSE 0

\* a require_admin() that lets every signed-in user through
SignedIn(p) == current_user(p) # 0

\* require_admin() lets the request through
is_admin(p) ==
    /\ current_user(p) # 0
    /\ View(p).users[current_user(p)].is_admin # 0

(***************************************************************************)
(* Steps shared by the handlers                                            *)
(***************************************************************************)
\* a request arrives: before_request's init_db() finds the schema and the
\* main admin in place and writes nothing
Begin(p, r, entry) ==
    /\ pc[p] = "idle"
    /\ pc' = [pc EXCEPT ![p] = entry]
    /\ req' = [req EXCEPT ![p] = r]
    /\ start' = [start EXCEPT ![p] = db]
    /\ nreq' = nreq + 1
    /\ UNCHANGED <<backend, db, seqs, loc, tx, locks, aborted, resp>>

\* the next statement is at label l
Goto(p, l) == pc' = [pc EXCEPT ![p] = l]

\* the handler returns (or raises) r
Finish(p, r) ==
    /\ pc' = [pc EXCEPT ![p] = "done"]
    /\ resp' = [resp EXCEPT ![p] = r]

\* db.execute(w) succeeds: the write joins p's transaction, its locks are taken
Exec(p, w) ==
    /\ tx' = [tx EXCEPT ![p] = Append(@, w)]
    /\ locks' = [locks EXCEPT ![p] = @ \cup LocksOf(p, w)]

\* db.execute(w) raises: on Postgres the transaction is then in the failed
\* state; on SQLite the transaction stays open with the write lock
ExecFails(p, w) ==
    /\ aborted' = [aborted EXCEPT ![p] = IS_PG]
    /\ locks' = [locks EXCEPT ![p] = IF IS_PG THEN @ ELSE @ \cup LocksOf(p, w)]
    /\ UNCHANGED tx

\* db.commit()
Commit(p) ==
    /\ db' = View(p)
    /\ tx' = [tx EXCEPT ![p] = <<>>]
    /\ locks' = [locks EXCEPT ![p] = {}]

\* db.rollback(), and close_db() on a connection with an open transaction
Rollback(p) ==
    /\ tx' = [tx EXCEPT ![p] = <<>>]
    /\ locks' = [locks EXCEPT ![p] = {}]
    /\ aborted' = [aborted EXCEPT ![p] = FALSE]

\* teardown_appcontext: close_db() closes the connection; what was not
\* committed is rolled back
close_db(p) ==
    /\ pc[p] = "done"
    /\ Rollback(p)
    /\ pc' = [pc EXCEPT ![p] = "idle"]
    /\ req' = [req EXCEPT ![p] = NoReq]
    /\ loc' = [loc EXCEPT ![p] = NoLoc]
    /\ resp' = [resp EXCEPT ![p] = NoResp]
    /\ start' = [start EXCEPT ![p] = InitDb]
    /\ UNCHANGED <<backend, db, seqs, nreq>>

\* the browser follows a redirect to the watch page: the request ends as in
\* close_db and GET /watch/<video_id> begins, with noview=1 when the redirect
\* says so, in the same session
follow_redirect(p, budget) ==
    /\ pc[p] = "done"
    /\ resp[p].kind = "redirect"
    /\ resp[p].location = "watch"
    /\ nreq < budget
    /\ Rollback(p)
    /\ pc' = [pc EXCEPT ![p] = "watch"]
    /\ req' = [req EXCEPT ![p] =
                  [NoReq EXCEPT !.op = "watch", !.session_user = req[p].session_user,
                                !.video_id = req[p].video_id,
                                !.noview = resp[p].noview, !.after = req[p].op]]
    /\ loc' = [loc EXCEPT ![p] = NoLoc]
    /\ resp' = [resp EXCEPT ![p] = NoResp]
    /\ start' = [start EXCEPT ![p] = db]
    /\ nreq' = nreq + 1
    /\ UNCHANGED <<backend, db, seqs>>

(***************************************************************************)
(* GET, POST /admin/users/<user_id>/edit                                   *)
(***************************************************************************)
UserEditReq(session_user, user_id, method, username, password, is_admin_field) ==
    [NoReq EXCEPT !.op = "admin_user_edit", !.session_user = session_user,
                  !.user_id = user_id, !.method = method, !.username = username,
                  !.password = password, !.is_admin = is_admin_field]

\* an edit form that locks no user
NobodyIsMainAdmin(username) == FALSE

\* (user["username"] or "").lower() == ADMIN_USERNAME.lower()
is_main_admin(username) == Lower(username) = Lower(ADMIN_USERNAME)

\* what the users schema makes of UPDATE users SET username: UNIQUE(username)
UsernameTaken(d, user_id, username) ==
    \E u \in DOMAIN d.users \ {user_id} : d.users[u].username = username

\* require_admin(), the SELECT of the user, the main-admin lock
admin_user_edit(p) ==
    /\ pc[p] = "admin_user_edit"
    /\ IF ~is_admin(p) THEN Finish(p, Abort(403)) /\ UNCHANGED loc
       ELSE IF req[p].user_id \notin DOMAIN View(p).users
       THEN Finish(p, Abort(404)) /\ UNCHANGED loc
       ELSE IF /\ req[p].method = "POST"
               /\ is_main_admin(View(p).users[req[p].user_id].username)
       THEN Finish(p, Redirect("cannot_edit_main_admin")) /\ UNCHANGED loc
       ELSE IF req[p].method # "POST"
       THEN Finish(p, Page("")) /\ UNCHANGED loc
       ELSE /\ loc' = [loc EXCEPT ![p].username = View(p).users[req[p].user_id].username]
            /\ Goto(p, "user_edit_username")
            /\ UNCHANGED resp
    /\ UNCHANGED <<backend, db, seqs, req, tx, locks, aborted, start, nreq>>

\* UPDATE users SET username=? WHERE id=?, and the except branch
user_edit_username(p) ==
    LET new_username == Strip(req[p].username)
        w == [op |-> "upd_username", user_id |-> req[p].user_id,
              username |-> new_username]
    IN  /\ pc[p] = "user_edit_username"
        /\ IF new_username = <<>> \/ new_username = loc[p].username
           THEN /\ Goto(p, "user_edit_update")
                /\ UNCHANGED <<tx, locks, aborted, resp>>
           ELSE /\ ~Blocked(p, w)
                /\ IF UsernameTaken(View(p), req[p].user_id, new_username)
                   THEN /\ ExecFails(p, w)
                        /\ Finish(p, Redirect("username_exists"))
                   ELSE /\ Exec(p, w)
                        /\ Goto(p, "user_edit_username_commit")
                        /\ UNCHANGED <<aborted, resp>>
        /\ UNCHANGED <<backend, db, seqs, req, loc, start, nreq>>

\* the db.commit() after the rename
user_edit_username_commit(p) ==
    /\ pc[p] = "user_edit_username_commit"
    /\ Commit(p)
    /\ Goto(p, "user_edit_update")
    /\ UNCHANGED <<backend, seqs, req, loc, aborted, resp, start, nreq>>

\* UPDATE users SET is_admin=? and, for a non-blank password, UPDATE users
\* SET password_hash=?
user_edit_update(p) ==
    LET new_password == Strip(req[p].password)
        w1 == [op |-> "upd_is_admin", user_id |-> req[p].user_id,
               is_admin |-> IF req[p].is_admin = "on" THEN 1 ELSE 0]
        w2 == [op |-> "upd_password", user_id |-> req[p].user_id,
               password_hash |-> generate_password_hash(new_password)]
    IN  /\ pc[p] = "user_edit_update"
        /\ ~Blocked(p, w1)
        /\ tx' = [tx EXCEPT ![p] = IF new_password # <<>> THEN @ \o <<w1, w2>>
                                   ELSE Append(@, w1)]
        /\ locks' = [locks EXCEPT ![p] = @ \cup LocksOf(p, w1)]
        /\ Goto(p, "user_edit_commit")
        /\ UNCHANGED <<backend, db, seqs, req, loc, aborted, resp, start, nreq>>

user_edit_commit(p) ==
    /\ pc[p] = "user_edit_commit"
    /\ Commit(p)
    /\ Finish(p, Redirect("user_updated"))
    /\ UNCHANGED <<backend, seqs, req, loc, aborted, start, nreq>>

UserEditSteps(p) ==
    \/ admin_user_edit(p)
    \/ user_edit_username(p)
    \/ user_edit_username_commit(p)
    \/ user_edit_update(p)
    \/ user_edit_commit(p)

(***************************************************************************)
(* GET /admin/users                                                        *)
(***************************************************************************)
UsersReq(session_user) ==
    [NoReq EXCEPT !.op = "admin_users", !.session_user = session_user]

\* require_admin(); SELECT ... FROM users; the page
admin_users(p) ==
    /\ pc[p] = "admin_users"
    /\ IF ~is_admin(p) THEN Finish(p, Abort(403)) ELSE Finish(p, Page(""))
    /\ UNCHANGED <<backend, db, seqs, req, loc, tx, locks, aborted, start, nreq>>

(***************************************************************************)
(* GET, POST /register                                                     *)
(***************************************************************************)
RegisterReq(method, username, password, password2) ==
    [NoReq EXCEPT !.op = "register", !.method = method, !.username = username,
                  !.password = password, !.password2 = password2]

\* users.id of the next INSERT: ids are handed out in order and no user is
\* ever deleted
NextUserId(d) == Cardinality(DOMAIN d.users) + 1

\* the form's checks, up to the reserved name
register(p) ==
    /\ pc[p] = "register"
    /\ IF req[p].method # "POST" THEN Finish(p, Page(""))
       ELSE IF Strip(req[p].username) = <<>> \/ req[p].password = <<>>
       THEN Finish(p, Page("register_required"))
       ELSE IF req[p].password # req[p].password2
       THEN Finish(p, Page("passwords_no_match"))
       ELSE IF Lower(Strip(req[p].username)) = Lower(ADMIN_USERNAME)
       THEN Finish(p, Page("username_reserved"))
       ELSE Goto(p, "register_insert") /\ UNCHANGED resp
    /\ UNCHANGED <<backend, db, seqs, req, loc, tx, locks, aborted, start, nreq>>

\* INSERT INTO users (username, password_hash, is_admin, created_at), and
\* the except branch
register_insert(p) ==
    LET username == Strip(req[p].username)
        w == [op |-> "ins_user", user_id |-> NextUserId(View(p)),
              row |-> [username |-> username, is_admin |-> 0,
                       password_hash |-> generate_password_hash(req[p].password)]]
    IN  /\ pc[p] = "register_insert"
        /\ ~Blocked(p, w)
        /\ IF UsernameTaken(View(p), 0, username)
           THEN /\ ExecFails(p, w)
                /\ Finish(p, Page("username_exists"))
           ELSE /\ Exec(p, w)
                /\ Goto(p, "register_commit")
                /\ UNCHANGED <<aborted, resp>>
        /\ UNCHANGED <<backend, db, seqs, req, loc, start, nreq>>

\* db.commit(); flash; redirect to the login page
register_commit(p) ==
    /\ pc[p] = "register_commit"
    /\ Commit(p)
    /\ Finish(p, Redirect("account_created"))
    /\ UNCHANGED <<backend, seqs, req, loc, aborted, start, nreq>>

RegisterSteps(p) ==
    \/ register(p)
    \/ register_insert(p)
    \/ register_commit(p)

(***************************************************************************)
(* Calls of the embed functions                                            *)
(***************************************************************************)
\* a call normalize_embed(source_url)
ResolveReq(source_url) ==
    [NoReq EXCEPT !.op = "normalize_embed", !.source_url = source_url]

\* the call raises ValueError for a blank URL and returns <<provider,
\* embed_url>> otherwise
resolve_call(p) ==
    /\ pc[p] = "normalize_embed"
    /\ IF Strip(req[p].source_url) = <<>>
       THEN Finish(p, [NoResp EXCEPT !.status = 500, !.kind = "ValueError",
                                     !.error = "empty_url"])
       ELSE Finish(p, [NoResp EXCEPT !.status = 200, !.kind = "value",
                                     !.value = normalize_embed(req[p].source_url)])
    /\ UNCHANGED <<backend, db, seqs, req, loc, tx, locks, aborted, start, nreq>>

\* a call force_provider_embed(provider_choice, source_url) during which an
\* oEmbed request, if one is made, gives fetched
DecideReq(provider, source_url, fetched) ==
    [NoReq EXCEPT !.op = "force_provider_embed", !.provider = provider,
                  !.source_url = source_url, !.fetched = fetched]

\* the call returns <<provider, embed_url, embed_html>>
decide_call(p) ==
    /\ pc[p] = "force_provider_embed"
    /\ Finish(p, [NoResp EXCEPT
                    !.status = 200, !.kind = "value",
                    !.value = force_provider_embed(req[p].provider, req[p].source_url,
                                                   req[p].fetched),
                    !.calls = oembed_calls(req[p].provider, req[p].source_url)])
    /\ UNCHANGED <<backend, db, seqs, req, loc, tx, locks, aborted, start, nreq>>

(***************************************************************************)
(* POST /watch/<video_id>/like                                             *)
(***************************************************************************)
LikeReq(session_user, video_id, wants_json) ==
    [NoReq EXCEPT !.op = "like", !.session_user = session_user,
                  !.video_id = video_id, !.wants_json = wants_json]

\* SELECT id FROM videos WHERE id=?; abort(404)
like_video(p) ==
    /\ pc[p] = "like_video"
    /\ IF req[p].video_id \in DOMAIN View(p).videos
       THEN Goto(p, "like_user") /\ UNCHANGED resp
       ELSE Finish(p, Abort(404))
    /\ UNCHANGED <<backend, db, seqs, req, loc, tx, locks, aborted, start, nreq>>

\* a like() that redirects every caller who is not signed in, AJAX or not
LoginRequiredRedirectOnly(wants_json) == RedirectToWatch("like_requires_login")

\* what like() answers a caller who is not signed in
LoginRequired(wants_json) ==
    IF wants_json
    THEN [NoResp EXCEPT !.status = 401, !.kind = "json", !.error = "login_required"]
    ELSE RedirectToWatch("like_requires_login")

\* user = current_user(); the login_required outcomes
like_user(p) ==
    /\ pc[p] = "like_user"
    /\ IF current_user(p) # 0
       THEN /\ Goto(p, "like_insert")
            /\ loc' = [loc EXCEPT ![p].user = current_user(p)]
            /\ UNCHANGED resp
       ELSE /\ Finish(p, LoginRequired(req[p].wants_json))
            /\ UNCHANGED loc
    /\ UNCHANGED <<backend, db, seqs, req, tx, locks, aborted, start, nreq>>

\* is_unique_violation(e) for the error the INSERT raised: kind is "unique"
\* or "foreign_key"; every sqlite3.IntegrityError counts as one
is_unique_violation(kind) ==
    \/ IS_PG /\ kind = "unique"
    \/ ~IS_PG /\ kind \in {"unique", "foreign_key"}

\* what the video_likes schema makes of an INSERT of (user_id, video_id) into
\* tables d: UNIQUE(user_id, video_id) and the two foreign keys
LikeInsertError(d, user_id, video_id) ==
    IF <<user_id, video_id>> \in d.video_likes THEN "unique"
    ELSE IF video_id \notin DOMAIN d.videos \/ user_id \notin DOMAIN d.users
    THEN "foreign_key"
    ELSE "ok"

\* INSERT INTO video_likes (user_id, video_id, created_at), and the except branch
like_insert(p) ==
    LET w    == [op |-> "ins_like", user_id |-> loc[p].user, video_id |-> req[p].video_id]
        kind == LikeInsertError(View(p), loc[p].user, req[p].video_id)
    IN  /\ pc[p] = "like_insert"
        /\ ~Blocked(p, w)
        /\ IF kind = "ok"
           THEN /\ Exec(p, w)
                /\ Goto(p, "like_update")
                /\ UNCHANGED <<loc, aborted, resp>>
           ELSE IF is_unique_violation(kind)
           THEN /\ ExecFails(p, w)
                /\ loc' = [loc EXCEPT ![p].liked_now = TRUE]
                /\ Goto(p, "like_read")
                /\ UNCHANGED resp
           ELSE /\ IF IS_PG THEN Rollback(p)
                   ELSE ExecFails(p, w)
                /\ Finish(p, RedirectToWatch("like_failed"))
                /\ UNCHANGED loc
        /\ UNCHANGED <<backend, db, seqs, req, start, nreq>>

\* UPDATE videos SET likes = likes + 1 WHERE id=?
like_update(p) ==
    LET w == [op |-> "inc_likes", video_id |-> req[p].video_id]
    IN  /\ pc[p] = "like_update"
        /\ ~Blocked(p, w)
        /\ Exec(p, w)
        /\ Goto(p, "like_commit")
        /\ UNCHANGED <<backend, db, seqs, req, loc, aborted, resp, start, nreq>>

\* db.commit(); liked_now = True
like_commit(p) ==
    /\ pc[p] = "like_commit"
    /\ Commit(p)
    /\ loc' = [loc EXCEPT ![p].liked_now = TRUE]
    /\ Goto(p, "like_read")
    /\ UNCHANGED <<backend, seqs, req, aborted, resp, start, nreq>>

\* SELECT likes FROM videos WHERE id=?, then the JSON answer or the redirect;
\* on a failed Postgres transaction the SELECT raises InFailedSqlTransaction
like_read(p) ==
    LET v     == View(p)
        likes == IF req[p].video_id \in DOMAIN v.videos
                 THEN v.videos[req[p].video_id].likes ELSE 0
    IN  /\ pc[p] = "like_read"
        /\ Finish(p, IF aborted[p] THEN Abort(500)
                     ELSE IF req[p].wants_json
                     THEN [NoResp EXCEPT !.status = 200, !.kind = "json", !.ok = TRUE,
                                         !.likes = likes, !.liked = loc[p].liked_now]
                     ELSE RedirectToWatch(""))
        /\ UNCHANGED <<backend, db, seqs, req, loc, tx, locks, aborted, start, nreq>>

LikeSteps(p) ==
    \/ like_video(p)
    \/ like_user(p)
    \/ like_insert(p)
    \/ like_update(p)
    \/ like_commit(p)
    \/ like_read(p)

(***************************************************************************)
(* GET, POST /admin/add                                                    *)
(***************************************************************************)
AddReq(session_user, method, title, source_url, provider, fetched) ==
    [NoReq EXCEPT !.op = "admin_add", !.session_user = session_user,
                  !.method = method, !.title = title, !.source_url = source_url,
                  !.provider = provider, !.fetched = fetched]

\* (request.form.get("provider") or "auto"); the field arrives stripped and
\* in lower case
provider_choice(field) == IF field = "" THEN "auto" ELSE field

\* the embed columns force_provider_embed() gives for the form of request p
EmbedOf(p) ==
    LET source_url == Strip(req[p].source_url)
        e == force_provider_embed(provider_choice(req[p].provider), source_url,
                                  req[p].fetched)
    IN  [provider |-> e[1], source_url |-> source_url, embed_url |-> e[2],
         embed_html |-> e[3]]

\* require_admin(); the GET form; the required fields; force_provider_embed()
admin_add(p) ==
    /\ pc[p] = "admin_add"
    /\ IF ~is_admin(p)
       THEN Finish(p, Abort(403)) /\ UNCHANGED loc
       ELSE IF req[p].method # "POST"
       THEN Finish(p, Page("")) /\ UNCHANGED loc
       ELSE IF Strip(req[p].title) = <<>> \/ Strip(req[p].source_url) = <<>>
       THEN Finish(p, Page("admin_need_title_url")) /\ UNCHANGED loc
       ELSE /\ loc' = [loc EXCEPT ![p].embed = EmbedOf(p)]
            /\ Goto(p, "add_insert")
            /\ UNCHANGED resp
    /\ UNCHANGED <<backend, db, seqs, req, tx, locks, aborted, start, nreq>>

\* INSERT INTO videos (...): the row gets the next id, views = likes = 0
add_insert(p) ==
    LET e == loc[p].embed
        w == [op |-> "ins_video", video_id |-> seqs.videos,
              row |-> VideoRow(e.provider, e.source_url, e.embed_url, e.embed_html)]
    IN  /\ pc[p] = "add_insert"
        /\ ~Blocked(p, w)
        /\ Exec(p, w)
        /\ seqs' = [seqs EXCEPT !.videos = @ + 1]
        /\ Goto(p, "add_commit")
        /\ UNCHANGED <<backend, db, req, loc, aborted, resp, start, nreq>>

\* db.commit(); flash; redirect
add_commit(p) ==
    /\ pc[p] = "add_commit"
    /\ Commit(p)
    /\ Finish(p, Redirect("video_added"))
    /\ UNCHANGED <<backend, seqs, req, loc, aborted, start, nreq>>

AddSteps(p) ==
    \/ admin_add(p)
    \/ add_insert(p)
    \/ add_commit(p)

(***************************************************************************)
(* POST /admin/delete/<video_id>                                           *)
(***************************************************************************)
DeleteReq(session_user, video_id) ==
    [NoReq EXCEPT !.op = "admin_delete", !.session_user = session_user,
                  !.video_id = video_id]

\* require_admin(); DELETE FROM videos WHERE id=?
admin_delete(p) ==
    LET w == [op |-> "del_video", video_id |-> req[p].video_id]
    IN  /\ pc[p] = "admin_delete"
        /\ IF ~is_admin(p)
           THEN /\ Finish(p, Abort(403))
                /\ UNCHANGED <<tx, locks>>
           ELSE /\ ~Blocked(p, w)
                /\ Exec(p, w)
                /\ Goto(p, "del_commit")
                /\ UNCHANGED resp
        /\ UNCHANGED <<backend, db, seqs, req, loc, aborted, start, nreq>>

\* db.commit(); flash; redirect
del_commit(p) ==
    /\ pc[p] = "del_commit"
    /\ Commit(p)
    /\ Finish(p, Redirect("video_deleted"))
    /\ UNCHANGED <<backend, seqs, req, loc, aborted, start, nreq>>

DeleteSteps(p) ==
    \/ admin_delete(p)
    \/ del_commit(p)

(***************************************************************************)
(* Playlist helpers                                                        *)
(***************************************************************************)
\* get_video_playlist(db, video_id): the playlist ids a SELECT ... LIMIT 1 over
\* the video's playlist_items may return; {0} when there is no row (None)
get_video_playlist(d, video_id) ==
    LET rows == {k[1] : k \in {k \in DOMAIN d.playlist_items :
                                  k[2] = video_id /\ k[1] \in d.playlists}}
    IN  IF rows = {} THEN {0} ELSE rows

\* a next item taken from the later rows without the ORDER BY position
get_next_unordered(d, playlist_id, current_video_id) ==
    IF <<playlist_id, current_video_id>> \notin DOMAIN d.playlist_items
    THEN {0}
    ELSE LET current_pos == d.playlist_items[<<playlist_id, current_video_id>>]
             later == {k \in DOMAIN d.playlist_items :
                          k[1] = playlist_id /\ d.playlist_items[k] > current_pos}
         IN  IF later = {} THEN {0} ELSE {k[2] : k \in later}

\* get_next_in_playlist_id(db, playlist_id, current_video_id): the video ids the
\* function may return, 0 for None.  ORDER BY position ASC LIMIT 1 returns any
\* one of the rows that share the smallest position
get_next_in_playlist_id(d, playlist_id, current_video_id) ==
    IF <<playlist_id, current_video_id>> \notin DOMAIN d.playlist_items
    THEN {0}
    ELSE LET current_pos == d.playlist_items[<<playlist_id, current_video_id>>]
             later == {k \in DOMAIN d.playlist_items :
                          k[1] = playlist_id /\ d.playlist_items[k] > current_pos}
             first == {k \in later :
                          \A j \in later : d.playlist_items[k] <= d.playlist_items[j]}
         IN  IF later = {} THEN {0} ELSE {k[2] : k \in first}

\* a call get_next_in_playlist_id(db, playlist_id, current_video_id)
NextReq(playlist_id, current_video_id) ==
    [NoReq EXCEPT !.op = "get_next_in_playlist_id", !.playlist = playlist_id,
                  !.video_id = current_video_id]

\* the call returns one of the values its two SELECTs allow
next_in_playlist(p) ==
    /\ pc[p] = "get_next_in_playlist_id"
    /\ \E r \in get_next_in_playlist_id(View(p), req[p].playlist, req[p].video_id) :
           Finish(p, [NoResp EXCEPT !.status = 200, !.kind = "value", !.next = r])
    /\ UNCHANGED <<backend, db, seqs, req, loc, tx, locks, aborted, start, nreq>>

(***************************************************************************)
(* GET /watch/<video_id>                                                   *)
(***************************************************************************)
WatchReq(session_user, video_id, noview) ==
    [NoReq EXCEPT !.op = "watch", !.session_user = session_user,
                  !.video_id = video_id, !.noview = noview]

\* a watch() that does not look at the noview flag
WatchEntryAlwaysCounts(noview) == "watch_views"

\* noview = (request.args.get("noview") or "") == "1"; if not noview: the
\* views UPDATE comes first
WatchEntry(noview) == IF noview THEN "watch_user" ELSE "watch_views"

\* SELECT * FROM videos WHERE id=?; abort(404); noview
watch(p) ==
    /\ pc[p] = "watch"
    /\ IF req[p].video_id \notin DOMAIN View(p).videos
       THEN Finish(p, Abort(404))
       ELSE /\ Goto(p, WatchEntry(req[p].noview))
            /\ UNCHANGED resp
    /\ UNCHANGED <<backend, db, seqs, req, loc, tx, locks, aborted, start, nreq>>

\* UPDATE videos SET views = views + 1 WHERE id=?
watch_views(p) ==
    LET w == [op |-> "inc_views", video_id |-> req[p].video_id]
    IN  /\ pc[p] = "watch_views"
        /\ ~Blocked(p, w)
        /\ Exec(p, w)
        /\ Goto(p, "watch_views_commit")
        /\ UNCHANGED <<backend, db, seqs, req, loc, aborted, resp, start, nreq>>

\* db.commit()
watch_views_commit(p) ==
    /\ pc[p] = "watch_views_commit"
    /\ Commit(p)
    /\ Goto(p, "watch_user")
    /\ UNCHANGED <<backend, seqs, req, loc, aborted, resp, start, nreq>>

\* user = current_user()
watch_user(p) ==
    /\ pc[p] = "watch_user"
    /\ loc' = [loc EXCEPT ![p].user = current_user(p)]
    /\ Goto(p, IF current_user(p) # 0 THEN "watch_upsert" ELSE "watch_render")
    /\ UNCHANGED <<backend, db, seqs, req, tx, locks, aborted, resp, start, nreq>>

\* the watch_history upsert; it raises when the video is gone (foreign key)
watch_upsert(p) ==
    LET w == [op |-> "upsert_history", user_id |-> loc[p].user,
              video_id |-> req[p].video_id]
        v == View(p)
    IN  /\ pc[p] = "watch_upsert"
        /\ ~Blocked(p, w)
        /\ IF w.video_id \in DOMAIN v.videos /\ w.user_id \in DOMAIN v.users
           THEN /\ Exec(p, w)
                /\ Goto(p, "watch_history_commit")
                /\ UNCHANGED <<aborted, resp>>
           ELSE /\ ExecFails(p, w)
                /\ Finish(p, Abort(500))
        /\ UNCHANGED <<backend, db, seqs, req, loc, start, nreq>>

\* db.commit()
watch_history_commit(p) ==
    /\ pc[p] = "watch_history_commit"
    /\ Commit(p)
    /\ Goto(p, "watch_render")
    /\ UNCHANGED <<backend, seqs, req, loc, aborted, resp, start, nreq>>

\* the page's reads: the video again, liked, the playlist and the next item
watch_render(p) ==
    LET v   == View(p)
        vid == req[p].video_id
    IN  /\ pc[p] = "watch_render"
        /\ IF vid \notin DOMAIN v.videos
           THEN Finish(p, Abort(500))
           ELSE \E pl \in get_video_playlist(v, vid) :
                \E n \in get_next_in_playlist_id(v, pl, vid) :
                    Finish(p, [Page("") EXCEPT
                        !.views = v.videos[vid].views,
                        !.likes = v.videos[vid].likes,
                        !.liked = loc[p].user # 0 /\ <<loc[p].user, vid>> \in v.video_likes,
                        !.next  = n])
        /\ UNCHANGED <<backend, db, seqs, req, loc, tx, locks, aborted, start, nreq>>

WatchSteps(p) ==
    \/ watch(p)
    \/ watch_views(p)
    \/ watch_views_commit(p)
    \/ watch_user(p)
    \/ watch_upsert(p)
    \/ watch_history_commit(p)
    \/ watch_render(p)

(***************************************************************************)
(* POST /watch/<video_id>/comment                                          *)
(***************************************************************************)
CommentReq(session_user, session_lang, video_id, author, body) ==
    [NoReq EXCEPT !.op = "comment", !.session_user = session_user,
                  !.session_lang = session_lang, !.video_id = video_id,
                  !.author = author, !.body = body]

\* SELECT id FROM videos WHERE id=?; abort(404)
comment(p) ==
    /\ pc[p] = "comment"
    /\ IF req[p].video_id \in DOMAIN View(p).videos
       THEN Goto(p, "comment_user") /\ UNCHANGED resp
       ELSE Finish(p, Abort(404))
    /\ UNCHANGED <<backend, db, seqs, req, loc, tx, locks, aborted, start, nreq>>

\* a resolution that puts the signed-in user's name before the author field
comment_author_username_first(author_field, username, session_lang) ==
    IF username # None THEN username
    ELSE IF Strip(author_field) # <<>> THEN Strip(author_field)
    ELSE t_anon(session_lang)

\* the author a comment is stored under, before the [:50]
comment_author(author_field, username, session_lang) ==
    LET author == Strip(author_field)
        a2     == IF username # None /\ author = <<>> THEN username ELSE author
    IN  IF a2 = <<>> THEN t_anon(session_lang) ELSE a2

\* user = current_user(); author and body stripped; the empty-comment error;
\* the author's resolution
comment_user(p) ==
    LET user     == current_user(p)
        body     == Strip(req[p].body)
        username == IF user # 0 THEN View(p).users[user].username ELSE None
    IN  /\ pc[p] = "comment_user"
        /\ IF body = <<>>
           THEN Finish(p, RedirectToWatch("comment_empty")) /\ UNCHANGED loc
           ELSE /\ loc' = [loc EXCEPT
                        ![p].user = user,
                        ![p].body = body,
                        ![p].author = comment_author(req[p].author, username,
                                                     req[p].session_lang)]
                /\ Goto(p, "comment_insert")
                /\ UNCHANGED resp
        /\ UNCHANGED <<backend, db, seqs, req, tx, locks, aborted, start, nreq>>

\* a comments row stored as it was typed, without the slices
CommentRowUncut(video_id, user_id, author, body) ==
    [video_id |-> video_id, user_id |-> user_id, author |-> author, body |-> body]

\* the comments row of the INSERT: author[:50], body[:1000]
CommentRow(video_id, user_id, author, body) ==
    [video_id |-> video_id, user_id |-> user_id,
     author |-> Take(author, AuthorMax), body |-> Take(body, BodyMax)]

\* INSERT INTO comments (...); it raises when the video is gone (foreign key)
comment_insert(p) ==
    LET w == [op |-> "ins_comment",
              row |-> CommentRow(req[p].video_id, loc[p].user, loc[p].author, loc[p].body)]
    IN  /\ pc[p] = "comment_insert"
        /\ ~Blocked(p, w)
        /\ IF req[p].video_id \in DOMAIN View(p).videos
           THEN /\ Exec(p, w)
                /\ Goto(p, "comment_commit")
                /\ UNCHANGED <<aborted, resp>>
           ELSE /\ ExecFails(p, w)
                /\ Finish(p, Abort(500))
        /\ UNCHANGED <<backend, db, seqs, req, loc, start, nreq>>

\* db.commit(); flash; redirect
comment_commit(p) ==
    /\ pc[p] = "comment_commit"
    /\ Commit(p)
    /\ Finish(p, RedirectToWatch("comment_posted"))
    /\ UNCHANGED <<backend, seqs, req, loc, aborted, start, nreq>>

CommentSteps(p) ==
    \/ comment(p)
    \/ comment_user(p)
    \/ comment_insert(p)
    \/ comment_commit(p)

(***************************************************************************)
(* GET, POST /admin/video/<video_id>/edit                                  *)
(***************************************************************************)
EditReq(session_user, video_id, method, title, source_url, provider, fetched, playlist_id, new_playlist_name, playlist_position) ==
    [NoReq EXCEPT !.op = "admin_video_edit", !.session_user = session_user,
                  !.video_id = video_id, !.method = method, !.title = title,
                  !.source_url = source_url, !.provider = provider,
                  !.fetched = fetched, !.playlist_id = playlist_id,
                  !.new_playlist_name = new_playlist_name,
                  !.playlist_position = playlist_position]

DigitValue(c) ==
    CASE c = "0" -> 0 [] c = "1" -> 1 [] c = "2" -> 2 [] c = "3" -> 3 [] c = "4" -> 4
      [] c = "5" -> 5 [] c = "6" -> 6 [] c = "7" -> 7 [] c = "8" -> 8 [] c = "9" -> 9

RECURSIVE DecimalValue(_)
DecimalValue(s) ==
    IF s = <<>> THEN 0
    ELSE 10 * DecimalValue(SubSeq(s, 1, Len(s) - 1)) + DigitValue(s[Len(s)])

\* int(s) of a stripped form field: [ok |-> FALSE] stands for the ValueError
ParseInt(s) ==
    LET signed == s # <<>> /\ s[1] \in {"-", "+"}
        digits == IF signed THEN Tail(s) ELSE s
    IN  IF digits # <<>> /\ \A i \in 1..Len(digits) : digits[i] \in Digits
        THEN [ok |-> TRUE,
              value |-> IF signed /\ s[1] = "-" THEN 0 - DecimalValue(digits)
                        ELSE DecimalValue(digits)]
        ELSE [ok |-> FALSE, value |-> 0]

\* position = int(position_str) if position_str else 1; at least 1; 1 on error
playlist_position(field) ==
    LET position_str == Strip(field)
        n == ParseInt(position_str)
    IN  IF position_str = <<>> \/ ~n.ok THEN 1 ELSE Max(n.value, 1)

\* chosen_playlist_id from the playlist_id field (no new playlist name given)
chosen_from_field(field) ==
    LET playlist_id == Strip(field)
        n == ParseInt(playlist_id)
    IN  IF playlist_id # <<>> /\ playlist_id # <<"n","o","n","e">> /\ n.ok
        THEN [some |-> TRUE, id |-> n.value]
        ELSE NoPlaylist

\* an edit that never removes the old membership
NeverDeletes(current_pl, chosen) == FALSE

\* the old membership has to be deleted
NeedsDelete(current_pl, chosen) ==
    /\ current_pl # 0
    /\ (~chosen.some \/ chosen.id # current_pl)

\* where admin_video_edit continues once chosen_playlist_id is known
AfterChosen(current_pl, chosen) ==
    IF NeedsDelete(current_pl, chosen) THEN "edit_delete_old"
    ELSE IF chosen.some THEN "edit_upsert"
    ELSE "edit_commit"

\* require_admin(); SELECT * FROM videos WHERE id=?; abort(404)
admin_video_edit(p) ==
    /\ pc[p] = "admin_video_edit"
    /\ IF ~is_admin(p) THEN Finish(p, Abort(403))
       ELSE IF req[p].video_id \notin DOMAIN View(p).videos THEN Finish(p, Abort(404))
       ELSE Goto(p, "edit_read") /\ UNCHANGED resp
    /\ UNCHANGED <<backend, db, seqs, req, loc, tx, locks, aborted, start, nreq>>

\* current_pl = get_video_playlist(db, video_id); the GET form; the form
\* fields; the required fields; force_provider_embed()
edit_read(p) ==
    /\ pc[p] = "edit_read"
    /\ \E current_pl \in get_video_playlist(View(p), req[p].video_id) :
        IF req[p].method # "POST"
        THEN Finish(p, Page("")) /\ UNCHANGED loc
        ELSE IF Strip(req[p].title) = <<>> \/ Strip(req[p].source_url) = <<>>
        THEN Finish(p, Redirect("admin_need_title_url")) /\ UNCHANGED loc
        ELSE /\ loc' = [loc EXCEPT
                    ![p].current_pl = current_pl,
                    ![p].position = playlist_position(req[p].playlist_position),
                    ![p].embed = EmbedOf(p)]
             /\ Goto(p, "edit_update")
             /\ UNCHANGED resp
    /\ UNCHANGED <<backend, db, seqs, req, tx, locks, aborted, start, nreq>>

\* UPDATE videos SET ... WHERE id=?; chosen_playlist_id from the playlist_id
\* field unless a new playlist is named
edit_update(p) ==
    LET w      == [op |-> "upd_video", video_id |-> req[p].video_id, row |-> loc[p].embed]
        chosen == chosen_from_field(req[p].playlist_id)
    IN  /\ pc[p] = "edit_update"
        /\ ~Blocked(p, w)
        /\ Exec(p, w)
        /\ IF Strip(req[p].new_playlist_name) # <<>>
           THEN Goto(p, "edit_new_playlist") /\ UNCHANGED loc
           ELSE /\ loc' = [loc EXCEPT ![p].chosen = chosen]
                /\ Goto(p, AfterChosen(loc[p].current_pl, chosen))
        /\ UNCHANGED <<backend, db, seqs, req, aborted, resp, start, nreq>>

\* INSERT INTO playlists (name, created_at); chosen_playlist_id = the new id
edit_new_playlist(p) ==
    LET w      == [op |-> "ins_playlist", playlist_id |-> seqs.playlists]
        chosen == [some |-> TRUE, id |-> seqs.playlists]
    IN  /\ pc[p] = "edit_new_playlist"
        /\ ~Blocked(p, w)
        /\ Exec(p, w)
        /\ seqs' = [seqs EXCEPT !.playlists = @ + 1]
        /\ loc' = [loc EXCEPT ![p].chosen = chosen]
        /\ Goto(p, AfterChosen(loc[p].current_pl, chosen))
        /\ UNCHANGED <<backend, db, req, aborted, resp, start, nreq>>

\* DELETE FROM playlist_items WHERE playlist_id=old_id AND video_id=?
edit_delete_old(p) ==
    LET w == [op |-> "del_item", playlist_id |-> loc[p].current_pl,
              video_id |-> req[p].video_id]
    IN  /\ pc[p] = "edit_delete_old"
        /\ ~Blocked(p, w)
        /\ Exec(p, w)
        /\ Goto(p, IF loc[p].chosen.some THEN "edit_upsert" ELSE "edit_commit")
        /\ UNCHANGED <<backend, db, seqs, req, loc, aborted, resp, start, nreq>>

\* the playlist_items upsert; it raises when the playlist or the video does
\* not exist (foreign key), and the request ends without a commit
edit_upsert(p) ==
    LET w == [op |-> "upsert_item", playlist_id |-> loc[p].chosen.id,
              video_id |-> req[p].video_id, position |-> loc[p].position]
        v == View(p)
    IN  /\ pc[p] = "edit_upsert"
        /\ ~Blocked(p, w)
        /\ IF w.playlist_id \in v.playlists /\ w.video_id \in DOMAIN v.videos
           THEN /\ Exec(p, w)
                /\ Goto(p, "edit_commit")
                /\ UNCHANGED <<aborted, resp>>
           ELSE /\ ExecFails(p, w)
                /\ Finish(p, Abort(500))
        /\ UNCHANGED <<backend, db, seqs, req, loc, start, nreq>>

\* db.commit(); flash; redirect
edit_commit(p) ==
    /\ pc[p] = "edit_commit"
    /\ Commit(p)
    /\ Finish(p, Redirect("video_updated"))
    /\ UNCHANGED <<backend, seqs, req, loc, aborted, start, nreq>>

EditSteps(p) ==
    \/ admin_video_edit(p)
    \/ edit_read(p)
    \/ edit_update(p)
    \/ edit_new_playlist(p)
    \/ edit_delete_old(p)
    \/ edit_upsert(p)
    \/ edit_commit(p)

(***************************************************************************)
(* Specifications                                                          *)
(***************************************************************************)
Init ==
    /\ backend \in {"sqlite", "pg"}
    /\ db = InitDb
    /\ seqs = [videos |-> 1, playlists |-> 1]
    /\ pc = [p \in Procs |-> "idle"]
    /\ req = [p \in Procs |-> NoReq]
    /\ loc = [p \in Procs |-> NoLoc]
    /\ tx = [p \in Procs |-> <<>>]
    /\ locks = [p \in Procs |-> {}]
    /\ aborted = [p \in Procs |-> FALSE]
    /\ resp = [p \in Procs |-> NoResp]
    /\ start = [p \in Procs |-> InitDb]
    /\ nreq = 0

\* session["user_id"]: absent, the main admin, the registered user
Sessions == {0, 1, 2}

SomeTitle == <<"t">>

UrlYoutube ==
    <<"h","t","t","p","s",":","/","/","w","w","w",".","y","o","u","t","u","b","e",
      ".","c","o","m","/","w","a","t","c","h","?","v","=","a","b","c","1","2","3">>

SomeBody == <<"h","i">>

PlaylistName == <<"A">>

\* ---- the requests of the sequential ledger specification ----
SeqLike ==
    \E u \in Sessions, v \in VideoIds, j \in BOOLEAN :
        nreq < MaxReqs /\ Begin(1, LikeReq(u, v, j), "like_video")

SeqWatch ==
    \E u \in Sessions, v \in VideoIds, n \in BOOLEAN :
        nreq < MaxReqs /\ Begin(1, WatchReq(u, v, n), "watch")

SeqComment ==
    \E u \in {0, 2}, v \in VideoIds :
        nreq < MaxReqs /\ Begin(1, CommentReq(u, "", v, <<>>, SomeBody), "comment")

SeqAdd ==
    \E u \in {1, 2} :
        /\ nreq < MaxReqs
        /\ seqs.videos <= MaxVideos
        /\ Begin(1, AddReq(u, "POST", SomeTitle, UrlYoutube, "", None), "admin_add")

SeqEdit ==
    \E v \in VideoIds, name \in {<<>>, PlaylistName} :
        /\ nreq < MaxReqs
        /\ Begin(1, EditReq(1, v, "POST", SomeTitle, UrlYoutube, "", None,
                            <<>>, name, <<>>), "admin_video_edit")

SeqDelete ==
    \E u \in {1, 2}, v \in VideoIds :
        nreq < MaxReqs /\ Begin(1, DeleteReq(u, v), "admin_delete")

\* one request at a time
Next ==
    \/ SeqLike
    \/ SeqWatch
    \/ SeqComment
    \/ SeqAdd
    \/ SeqEdit
    \/ SeqDelete
    \/ LikeSteps(1)
    \/ WatchSteps(1)
    \/ CommentSteps(1)
    \/ AddSteps(1)
    \/ EditSteps(1)
    \/ DeleteSteps(1)
    \/ close_db(1)
    \/ follow_redirect(1, MaxReqs)

Spec == Init /\ [][Next]_vars

(***************************************************************************)
(* The like ledger and the view counter, one request at a time             *)
(***************************************************************************)
\* the likes counter of video v in tables d
LikesOf(d, v) == d.videos[v].likes

\* the video_likes rows of video v in tables d
LikeRows(d, v) == {r \in d.video_likes : r[2] = v}

\* process p has answered a like request of a video that existed when the
\* request began
LikeAnswered(p) ==
    /\ pc[p] = "done"
    /\ req[p].op = "like"
    /\ req[p].video_id \in DOMAIN start[p].videos

\* C1: a signed-in user's like of an existing video is idempotent: the first
\* like of the pair inserts the row and moves the counter by one, a repeated
\* like leaves row and counter as they are, and both report success (JSON:
\* ok, liked = true and the current count; otherwise the plain redirect).
C1_LikeIsIdempotent ==
    \A p \in Procs :
        (LikeAnswered(p) /\ req[p].session_user \in DOMAIN start[p].users) =>
            LET u == req[p].session_user
                v == req[p].video_id
                repeated == <<u, v>> \in start[p].video_likes
            IN  /\ v \in DOMAIN db.videos
                /\ <<u, v>> \in db.video_likes
                /\ LikesOf(db, v) = LikesOf(start[p], v) + (IF repeated THEN 0 ELSE 1)
                /\ IF req[p].wants_json
                   THEN /\ resp[p].status = 200
                        /\ resp[p].ok
                        /\ resp[p].liked
                        /\ resp[p].likes = LikesOf(db, v)
                   ELSE resp[p] = RedirectToWatch("")

\* C2: for every video, the likes counter equals the number of video_likes
\* rows of that video, whatever like, watch, comment, add, edit and delete
\* requests have run.
C2_LikesEqualsRows ==
    \A v \in DOMAIN db.videos : LikesOf(db, v) = Cardinality(LikeRows(db, v))

\* both accounts have liked one video; the second like has just been answered
C2_Witness ==
    \E v \in DOMAIN db.videos :
        /\ LikesOf(db, v) = 2
        /\ Cardinality(LikeRows(db, v)) = 2
        /\ pc[1] = "done"
        /\ req[1].op = "like"

\* C5: a watch page load of an existing video moves its views counter by
\* exactly one, and by nothing when the request carries noview=1; the page
\* shows the counter as it then stands.
C5_ViewsCountPageLoads ==
    \A p \in Procs :
        (pc[p] = "done" /\ req[p].op = "watch"
            /\ req[p].video_id \in DOMAIN start[p].videos) =>
            LET v == req[p].video_id
            IN  /\ resp[p].status = 200
                /\ v \in DOMAIN db.videos
                /\ db.videos[v].views =
                       start[p].videos[v].views + (IF req[p].noview THEN 0 ELSE 1)
                /\ resp[p].views = db.videos[v].views

\* a counted load on top of an earlier one, and a noview load of a viewed video
C5_Witness ==
    /\ pc[1] = "done"
    /\ req[1].op = "watch"
    /\ req[1].video_id \in DOMAIN start[1].videos
    /\ start[1].videos[req[1].video_id].views = 1
    /\ req[1].noview
    /\ resp[1].views = 1

\* C6: a like by a caller who is not signed in answers 401 with the error
\* login_required to an AJAX caller and redirects with the login message
\* otherwise; no row is inserted and no counter moves.
C6_LikeNeedsLogin ==
    \A p \in Procs :
        (LikeAnswered(p) /\ req[p].session_user \notin DOMAIN start[p].users) =>
            /\ IF req[p].wants_json
               THEN /\ resp[p].status = 401
                    /\ resp[p].kind = "json"
                    /\ resp[p].error = "login_required"
                    /\ ~resp[p].ok
               ELSE /\ resp[p].status = 302
                    /\ resp[p].flash = "like_requires_login"
            /\ db = start[p]
            /\ tx[p] = <<>>

\* an AJAX like without a session has been answered, on a video with a like
C6_Witness ==
    /\ LikeAnswered(1)
    /\ req[1].session_user = 0
    /\ req[1].wants_json
    /\ resp[1].status = 401
    /\ LikesOf(db, req[1].video_id) = 1

(***************************************************************************)
(* Concurrent requests: every worker has its own connection, and the       *)
(* statements of different requests interleave                             *)
(***************************************************************************)
\* the admin uploads the first video
ConcAdd ==
    /\ nreq < MaxConcReqs
    /\ seqs.videos = 1
    /\ Begin(1, AddReq(1, "POST", SomeTitle, UrlYoutube, "", None), "admin_add")

ConcLike ==
    \E p \in Procs :
        nreq < MaxConcReqs /\ Begin(p, LikeReq(2, 1, TRUE), "like_video")

ConcWatch ==
    \E p \in Procs :
        nreq < MaxConcReqs /\ Begin(p, WatchReq(2, 1, FALSE), "watch")

NextConc ==
    \/ ConcAdd
    \/ ConcLike
    \/ ConcWatch
    \/ \E p \in Procs : AddSteps(p)
    \/ \E p \in Procs : LikeSteps(p)
    \/ \E p \in Procs : WatchSteps(p)
    \/ \E p \in Procs : close_db(p)

SpecConc == Init /\ [][NextConc]_vars

\* processes p and q have both answered a like of the same pair by a
\* signed-in user, and each began before the other had committed
ConcurrentLikes(p, q) ==
    /\ p # q
    /\ LikeAnswered(p)
    /\ LikeAnswered(q)
    /\ req[p].session_user = req[q].session_user
    /\ req[p].video_id = req[q].video_id
    /\ req[p].session_user \in DOMAIN start[p].users
    /\ <<req[p].session_user, req[p].video_id>> \notin start[p].video_likes
    /\ <<req[q].session_user, req[q].video_id>> \notin start[q].video_likes

\* C3: two concurrent likes of one pair by a signed-in user leave, in every
\* interleaving of their statements, the pair's row in video_likes once and
\* the counter moved by that one row: the counter never runs ahead of the
\* rows, and since either request began it has grown by exactly the number
\* of rows added, of which the pair's is one.
C3_ConcurrentLikesCountOnce ==
    /\ \A v \in DOMAIN db.videos : LikesOf(db, v) = Cardinality(LikeRows(db, v))
    /\ \A p, q \in Procs :
        ConcurrentLikes(p, q) =>
            LET u == req[p].session_user
                v == req[p].video_id
                added == LikeRows(db, v) \ LikeRows(start[p], v)
            IN  /\ v \in DOMAIN db.videos
                /\ <<u, v>> \in added
                /\ LikesOf(db, v) = LikesOf(start[p], v) + Cardinality(added)
                /\ (added = {<<u, v>>}) => LikesOf(db, v) = LikesOf(start[p], v) + 1

\* both likes are answered, the video had no like before, and it has one now
C3_Witness ==
    /\ ConcurrentLikes(1, 2)
    /\ LikesOf(start[1], req[1].video_id) = 0
    /\ LikesOf(start[2], req[2].video_id) = 0
    /\ LikesOf(db, req[1].video_id) = 1
    /\ LikeRows(db, req[1].video_id) = {<<req[1].session_user, req[1].video_id>>}

\* the processes that have answered a watch of video v by signed-in user u
Watched(u, v) ==
    {p \in Procs : /\ pc[p] = "done"
                   /\ req[p].op = "watch"
                   /\ req[p].session_user = u
                   /\ req[p].video_id = v
                   /\ resp[p].status = 200}

\* watch_count of the pair in tables d, 0 without a row
WatchCount(d, u, v) ==
    IF <<u, v>> \in DOMAIN d.watch_history THEN d.watch_history[<<u, v>>] ELSE 0

\* C4: n >= 1 watch requests of one pair by a signed-in user, one after the
\* other or interleaved, leave the pair's single watch_history row with
\* watch_count = n.  Every answered watch has added at least its own one to
\* what it found, and when the answered watches are all the requests there
\* have been besides the upload of the video, the count is their number.
C4_WatchCountIsRequests ==
    \A u \in DOMAIN db.users, v \in DOMAIN db.videos :
        LET W == Watched(u, v)
        IN  /\ \A p \in W : WatchCount(db, u, v) >= WatchCount(start[p], u, v) + 1
            /\ (W # {} /\ nreq = Cardinality(W) + 1) =>
                   WatchCount(db, u, v) = Cardinality(W)

\* two watches of the pair that both began before the row existed are
\* answered, and the row counts both
C4_Witness ==
    /\ Watched(2, 1) = {1, 2}
    /\ WatchCount(start[1], 2, 1) = 0
    /\ WatchCount(start[2], 2, 1) = 0
    /\ WatchCount(db, 2, 1) = 2

(***************************************************************************)
(* Comments: the form fields in all their shapes                           *)
(***************************************************************************)
\* the author field: absent, blank, padded, longer than the column's slice
AuthorFields == {<<>>, <<" ", " ">>, <<" ", "a", "l", " ">>, Rep("a", AuthorMax + 1)}

\* the body field: absent, blank, padded, longer than the column's slice
BodyFields == {<<>>, <<" ", "\t">>, <<" ", "h", "i", " ">>, Rep("x", BodyMax + 1)}

\* session["lang"]: absent, or what set_lang stored
SessionLangs == {""} \cup SUPPORTED_LANGS

CmtAdd ==
    /\ nreq < MaxCommentReqs
    /\ seqs.videos <= MaxVideos
    /\ Begin(1, AddReq(1, "POST", SomeTitle, UrlYoutube, "", None), "admin_add")

CmtComment ==
    \E u \in {0, 2}, l \in SessionLangs, a \in AuthorFields, b \in BodyFields :
        nreq < MaxCommentReqs /\ Begin(1, CommentReq(u, l, 1, a, b), "comment")

NextComment ==
    \/ CmtAdd
    \/ CmtComment
    \/ AddSteps(1)
    \/ CommentSteps(1)
    \/ close_db(1)

SpecComment == Init /\ [][NextComment]_vars

\* nothing but white space
IsBlank(s) == \A i \in 1..Len(s) : s[i] \in Whitespace

\* process p has answered a comment request of a video that existed when the
\* request began
CommentAnswered(p) ==
    /\ pc[p] = "done"
    /\ req[p].op = "comment"
    /\ req[p].video_id \in DOMAIN start[p].videos

\* C7: a comment whose body is empty or white space only is turned away with
\* the empty-comment message and inserts no row; any other body is accepted
\* and adds one row; every comments row has a non-empty body of at most 1000
\* characters and an author of at most 50.
C7_CommentsAreCut ==
    /\ \A i \in 1..Len(db.comments) :
        /\ db.comments[i].body # <<>>
        /\ Len(db.comments[i].body) <= BodyMax
        /\ Len(db.comments[i].author) <= AuthorMax
    /\ \A p \in Procs :
        CommentAnswered(p) =>
            IF IsBlank(req[p].body)
            THEN /\ resp[p] = RedirectToWatch("comment_empty")
                 /\ db.comments = start[p].comments
            ELSE /\ resp[p] = RedirectToWatch("comment_posted")
                 /\ Len(db.comments) = Len(start[p].comments) + 1

\* an over-long body under an over-long author has been posted, and the row
\* holds the first 1000 and the first 50 characters
C7_Witness ==
    /\ CommentAnswered(1)
    /\ Len(req[1].body) > BodyMax
    /\ Len(req[1].author) > AuthorMax
    /\ resp[1].flash = "comment_posted"
    /\ Len(db.comments[Len(db.comments)].body) = BodyMax
    /\ Len(db.comments[Len(db.comments)].author) = AuthorMax

\* process p has posted a comment; it is the last row
CommentPosted(p) ==
    /\ CommentAnswered(p)
    /\ resp[p].flash = "comment_posted"
    /\ Len(db.comments) > 0

\* the name a comment of request p goes under when nobody is named:
\* placeholder stands for the anonymous author
ResolvedAuthor(p, placeholder) ==
    Take(IF ~IsBlank(req[p].author) THEN Strip(req[p].author)
         ELSE IF req[p].session_user \in DOMAIN start[p].users
         THEN start[p].users[req[p].session_user].username
         ELSE placeholder,
         AuthorMax)

\* C8 as the specification words it: the stored author is the author field
\* when it is not blank, else the signed-in user's username, else the
\* literal "Anonymous" (the name trimmed and cut to the column's 50).
C8_AuthorOrAnonymous ==
    \A p \in Procs :
        CommentPosted(p) =>
            db.comments[Len(db.comments)].author =
                ResolvedAuthor(p, <<"A","n","o","n","y","m","o","u","s">>)

\* C8: the stored author is the author field when it is not blank, else the
\* signed-in user's username, else the anonymous placeholder in the language
\* of the session: "Anonymous" when the session's language is English,
\* "Anonym" otherwise (Swedish is the default); the name is trimmed and cut
\* to 50 characters.
C8_AuthorOrLocalizedPlaceholder ==
    \A p \in Procs :
        CommentPosted(p) =>
            db.comments[Len(db.comments)].author =
                ResolvedAuthor(p, IF req[p].session_lang = "en"
                                  THEN <<"A","n","o","n","y","m","o","u","s">>
                                  ELSE <<"A","n","o","n","y","m">>)

\* an anonymous comment without an author field in a session without a
\* language has been stored under "Anonym"
C8_Witness ==
    /\ CommentPosted(1)
    /\ req[1].session_user = 0
    /\ IsBlank(req[1].author)
    /\ req[1].session_lang = ""
    /\ db.comments[Len(db.comments)].author = <<"A","n","o","n","y","m">>

(***************************************************************************)
(* Playlists: the admin's edits, one at a time                             *)
(***************************************************************************)
\* the playlist_id field: absent, "none", playlists 1 and 2, one that does
\* not exist, and no number at all
PlaylistFields ==
    {<<>>, <<"n","o","n","e">>, <<"1">>, <<"2">>, <<"9">>, <<"x">>}

\* the playlist_position field: absent, below 1, and two positions
PositionFields == {<<>>, <<"0">>, <<"1">>, <<"2">>}

PlAdd ==
    /\ nreq < MaxPlaylistReqs
    /\ seqs.videos <= MaxVideos
    /\ Begin(1, AddReq(1, "POST", SomeTitle, UrlYoutube, "", None), "admin_add")

\* an edit that names a new playlist
PlEditNew ==
    \E v \in VideoIds, k \in PositionFields :
        /\ nreq < MaxPlaylistReqs
        /\ Begin(1, EditReq(1, v, "POST", SomeTitle, UrlYoutube, "", None,
                            <<>>, PlaylistName, k), "admin_video_edit")

\* an edit that picks from the playlist_id select
PlEditPick ==
    \E v \in VideoIds, f \in PlaylistFields, k \in PositionFields :
        /\ nreq < MaxPlaylistReqs
        /\ Begin(1, EditReq(1, v, "POST", SomeTitle, UrlYoutube, "", None,
                            f, <<>>, k), "admin_video_edit")

NextPlaylist ==
    \/ PlAdd
    \/ PlEditNew
    \/ PlEditPick
    \/ AddSteps(1)
    \/ EditSteps(1)
    \/ close_db(1)

SpecPlaylist == Init /\ [][NextPlaylist]_vars

\* the playlist_items rows of video v in tables d
ItemsOf(d, v) == {k \in DOMAIN d.playlist_items : k[2] = v}

\* the playlist a playlist_id field names, 0 when it names none
FieldPlaylist(f) ==
    CASE f = <<"1">> -> 1
      [] f = <<"2">> -> 2
      [] f = <<"9">> -> 9
      [] OTHER -> 0

\* the position a playlist_position field gives, 0 when it gives none
FieldPosition(f) ==
    CASE f = <<"1">> -> 1
      [] f = <<"2">> -> 2
      [] OTHER -> 0

\* process p has answered an edit that was saved
EditSaved(p) ==
    /\ pc[p] = "done"
    /\ req[p].op = "admin_video_edit"
    /\ resp[p].flash = "video_updated"

\* the video of the edit is in playlist b alone, at position k if k is one
OnlyIn(v, b, k) ==
    /\ ItemsOf(db, v) = {<<b, v>>}
    /\ k # 0 => db.playlist_items[<<b, v>>] = k

\* C10: with the admin's edits running one at a time, every video has at
\* most one playlist_items row; a saved edit that chooses playlist B with
\* position k leaves the video's one row under B at position k and none
\* under the playlist it was in, and a saved edit that chooses "none" (or
\* no playlist) leaves the video without a row.
C10_AtMostOnePlaylist ==
    /\ \A v \in DOMAIN db.videos : Cardinality(ItemsOf(db, v)) <= 1
    /\ \A p \in Procs :
        EditSaved(p) =>
            LET v == req[p].video_id
                k == FieldPosition(req[p].playlist_position)
                B == FieldPlaylist(req[p].playlist_id)
            IN  IF ~IsBlank(req[p].new_playlist_name)
                THEN \E b \in db.playlists \ start[p].playlists : OnlyIn(v, b, k)
                ELSE IF B # 0 THEN OnlyIn(v, B, k)
                ELSE ItemsOf(db, v) = {}

\* a video that was in playlist 2 has been moved to playlist 1, position 2
C10_Witness ==
    /\ EditSaved(1)
    /\ ItemsOf(start[1], req[1].video_id) = {<<2, req[1].video_id>>}
    /\ req[1].playlist_id = <<"1">>
    /\ req[1].playlist_position = <<"2">>
    /\ ItemsOf(db, req[1].video_id) = {<<1, req[1].video_id>>}
    /\ db.playlist_items[<<1, req[1].video_id>>] = 2

(***************************************************************************)
(* Playlists: walking to the next item                                     *)
(***************************************************************************)
NextVideoIds == 1..MaxNextVideos

NextPlaylists == {1, 2}

\* positions with a tie to make and a gap to jump
NextPositions == {1, 2, 4}

\* the tables after NextVideoIds have been added and each video v has been
\* put where m[v] says: <<0, 0>> in no playlist, <<pl, k>> in pl at position k
PlaylistDb(m) ==
    LET e == force_provider_embed("auto", UrlYoutube, None)
    IN  [InitDb EXCEPT
            !.videos = [v \in NextVideoIds |-> VideoRow(e[1], UrlYoutube, e[2], e[3])],
            !.playlists = NextPlaylists,
            !.playlist_items =
                [k \in {<<m[v][1], v>> : v \in {x \in NextVideoIds : m[x][1] # 0}}
                    |-> m[k[2]][2]]]

InitNext ==
    /\ backend \in {"sqlite", "pg"}
    /\ \E m \in [NextVideoIds -> {<<0, 0>>} \cup (NextPlaylists \X NextPositions)] :
            db = PlaylistDb(m)
    /\ seqs = [videos |-> MaxNextVideos + 1, playlists |-> 3]
    /\ pc = [p \in Procs |-> "idle"]
    /\ req = [p \in Procs |-> NoReq]
    /\ loc = [p \in Procs |-> NoLoc]
    /\ tx = [p \in Procs |-> <<>>]
    /\ locks = [p \in Procs |-> {}]
    /\ aborted = [p \in Procs |-> FALSE]
    /\ resp = [p \in Procs |-> NoResp]
    /\ start = [p \in Procs |-> InitDb]
    /\ nreq = 0

NextCall ==
    \E pl \in NextPlaylists, v \in NextVideoIds :
        nreq < MaxNextReqs /\ Begin(1, NextReq(pl, v), "get_next_in_playlist_id")

NextNext ==
    \/ NextCall
    \/ next_in_playlist(1)
    \/ close_db(1)

SpecNext == InitNext /\ [][NextNext]_vars

\* r is what the specification asks of next(pl, v) on tables d; 0 is none
NextIsRight(d, pl, v, r) ==
    LET member(x) == <<pl, x>> \in DOMAIN d.playlist_items
        pos(x)    == d.playlist_items[<<pl, x>>]
        videos    == {k[2] : k \in DOMAIN d.playlist_items}
    IN  IF ~member(v) THEN r = 0
        ELSE IF \E m \in videos : member(m) /\ pos(m) > pos(v)
        THEN /\ r # 0
             /\ member(r)
             /\ pos(r) > pos(v)
             /\ ~ \E m \in videos : member(m) /\ pos(v) < pos(m) /\ pos(m) < pos(r)
        ELSE r = 0

\* the call of process p has returned
NextAnswered(p) ==
    /\ pc[p] = "done"
    /\ req[p].op = "get_next_in_playlist_id"

\* C9: next(playlist, video) is none when the video is not in the playlist;
\* otherwise it is a member at a strictly greater position with no member
\* strictly between the two; from the last position it is none, never the
\* first item again.  This holds of every value the function can return on
\* the tables, and of the value each call has returned.
C9_NextInPlaylist ==
    /\ \A pl \in db.playlists, v \in DOMAIN db.videos :
           \A r \in get_next_in_playlist_id(db, pl, v) : NextIsRight(db, pl, v, r)
    /\ \A p \in Procs :
           NextAnswered(p) =>
               NextIsRight(db, req[p].playlist, req[p].video_id, resp[p].next)

\* a call from position 1 of a playlist whose other members sit at 2 and 4 has
\* returned the member at 2
C9_Witness ==
    /\ NextAnswered(1)
    /\ req[1].playlist = 1
    /\ req[1].video_id = 1
    /\ DOMAIN db.playlist_items = {<<1, 1>>, <<1, 2>>, <<1, 3>>}
    /\ db.playlist_items[<<1, 1>>] = 1
    /\ db.playlist_items[<<1, 2>>] = 4
    /\ db.playlist_items[<<1, 3>>] = 2
    /\ resp[1].next = 3

(***************************************************************************)
(* The embed functions on their own: each call of normalize_embed and of   *)
(* force_provider_embed is a request of process 1                          *)
(***************************************************************************)
MaxEmbedReqs == 1

\* scheme prefixes of the calls; without one urlparse finds no host
UrlSchemes == { <<"h","t","t","p","s",":","/","/">>, <<>> }

\* white space around the URL
UrlPads == { <<>>, <<" ">> }

\* the network locations of the calls: text as written, name the lower-cased
\* host name it denotes
UrlHosts ==
    { [text |-> <<"w","w","w",".","y","o","u","t","u","b","e",".","c","o","m">>, name |-> <<"w","w","w",".","y","o","u","t","u","b","e",".","c","o","m">>],
      [text |-> <<"Y","o","u","T","u","b","e",".","C","O","M">>, name |-> <<"y","o","u","t","u","b","e",".","c","o","m">>],
      [text |-> <<"m",".","y","o","u","t","u","b","e",".","c","o","m",":","4","4","3">>, name |-> <<"m",".","y","o","u","t","u","b","e",".","c","o","m">>],
      [text |-> <<"y","o","u","t","u",".","b","e">>, name |-> <<"y","o","u","t","u",".","b","e">>],
      [text |-> <<"v","i","m","e","o",".","c","o","m">>, name |-> <<"v","i","m","e","o",".","c","o","m">>],
      [text |-> <<"w","w","w",".","l","o","o","m",".","c","o","m">>, name |-> <<"w","w","w",".","l","o","o","m",".","c","o","m">>],
      [text |-> <<"w","w","w",".","r","e","d","d","i","t",".","c","o","m">>, name |-> <<"w","w","w",".","r","e","d","d","i","t",".","c","o","m">>],
      [text |-> <<"v",".","r","e","d","d",".","i","t">>, name |-> <<"v",".","r","e","d","d",".","i","t">>],
      [text |-> <<"v","m",".","t","i","k","t","o","k",".","c","o","m">>, name |-> <<"v","m",".","t","i","k","t","o","k",".","c","o","m">>],
      [text |-> <<"e","x","a","m","p","l","e",".","c","o","m">>, name |-> <<"e","x","a","m","p","l","e",".","c","o","m">>],
      [text |-> <<"y","o","u","t","u","b","e",".","c","o","m",".","v","i","m","e","o",".","c","o","m">>, name |-> <<"y","o","u","t","u","b","e",".","c","o","m",".","v","i","m","e","o",".","c","o","m">>],
      [text |-> <<"y","o","u","t","u",".","b","e",".","y","o","u","t","u","b","e",".","c","o","m">>, name |-> <<"y","o","u","t","u",".","b","e",".","y","o","u","t","u","b","e",".","c","o","m">>],
      [text |-> <<"r","e","d","d","i","t",".","c","o","m",".","y","o","u","t","u","b","e",".","c","o","m">>, name |-> <<"r","e","d","d","i","t",".","c","o","m",".","y","o","u","t","u","b","e",".","c","o","m">>],
      [text |-> <<"n","o","t","y","o","u","t","u","b","e",".","c","o","m">>, name |-> <<"n","o","t","y","o","u","t","u","b","e",".","c","o","m">>],
      [text |-> <<"y","o","u","t","u","b","e",".","c","o","m",".","l","o","o","m",".","c","o","m">>, name |-> <<"y","o","u","t","u","b","e",".","c","o","m",".","l","o","o","m",".","c","o","m">>] }

\* the paths of the calls: shorts is the segment after /shorts/, first the
\* first non-empty segment, digits the first run of digits after a /, share
\* the segment after /share/ (each empty when there is none)
UrlPaths ==
    { [text |-> <<>>, shorts |-> <<>>, first |-> <<>>, digits |-> <<>>, share |-> <<>>],
      [text |-> <<"/","w","a","t","c","h">>, shorts |-> <<>>, first |-> <<"w","a","t","c","h">>, digits |-> <<>>, share |-> <<>>],
      [text |-> <<"/","s","h","o","r","t","s","/","s","1">>, shorts |-> <<"s","1">>, first |-> <<"s","h","o","r","t","s">>, digits |-> <<>>, share |-> <<>>],
      [text |-> <<"/","s","h","o","r","t","s","/">>, shorts |-> <<>>, first |-> <<"s","h","o","r","t","s">>, digits |-> <<>>, share |-> <<>>],
      [text |-> <<"/","a","b","c","/","d","e","f">>, shorts |-> <<>>, first |-> <<"a","b","c">>, digits |-> <<>>, share |-> <<>>],
      [text |-> <<"/","1","2","3","4","5">>, shorts |-> <<>>, first |-> <<"1","2","3","4","5">>, digits |-> <<"1","2","3","4","5">>, share |-> <<>>],
      [text |-> <<"/","s","h","a","r","e","/","L","9","x">>, shorts |-> <<>>, first |-> <<"s","h","a","r","e">>, digits |-> <<>>, share |-> <<"L","9","x">>],
      [text |-> <<"/","/","d","Q">>, shorts |-> <<>>, first |-> <<"d","Q">>, digits |-> <<>>, share |-> <<>>] }

\* the query strings of the calls: v is the first non-blank value of the
\* parameter v (empty when there is none)
UrlQueries ==
    { [text |-> <<>>, v |-> <<>>],
      [text |-> <<"?","v","=","a","b","c","1","2","3">>, v |-> <<"a","b","c","1","2","3">>],
      [text |-> <<"?","v","=">>, v |-> <<>>],
      [text |-> <<"?","t","=","5","&","v","=","q","-","_","2">>, v |-> <<"q","-","_","2">>],
      [text |-> <<"?","l","i","s","t","=","P","L","1">>, v |-> <<>>],
      [text |-> <<"?","v","=","a","1","&","v","=","b","2">>, v |-> <<"a","1">>],
      [text |-> <<"?","V","=","z","z">>, v |-> <<>>] }

\* the URL text made of the parts
UrlText(pad, scheme, host, path, query) ==
    pad \o scheme \o host.text \o path.text \o query.text \o pad

\* the host name urlparse gives the URL made of the parts
UrlHostName(scheme, host) == IF scheme = <<>> THEN <<>> ELSE host.name

Url_vimeo == <<"h","t","t","p","s",":","/","/","v","i","m","e","o",".","c","o","m","/","1","2","3","4","5">>
Url_loom == <<"h","t","t","p","s",":","/","/","w","w","w",".","l","o","o","m",".","c","o","m","/","s","h","a","r","e","/","L","9","x">>
Url_reddit == <<"h","t","t","p","s",":","/","/","w","w","w",".","r","e","d","d","i","t",".","c","o","m","/","r","/","x","/","c","o","m","m","e","n","t","s","/","1">>
Url_redd_it == <<"h","t","t","p","s",":","/","/","v",".","r","e","d","d",".","i","t","/","a","b","c">>
Url_tiktok == <<"h","t","t","p","s",":","/","/","v","m",".","t","i","k","t","o","k",".","c","o","m","/","Z","M","1">>
Url_custom == <<"h","t","t","p","s",":","/","/","e","x","a","m","p","l","e",".","c","o","m","/","c","l","i","p",".","m","p","4">>
Url_youtube_no_id == <<"h","t","t","p","s",":","/","/","w","w","w",".","y","o","u","t","u","b","e",".","c","o","m","/","c","h","a","n","n","e","l","/","U","C","1">>
Url_youtu_be_padded == <<" ","h","t","t","p","s",":","/","/","y","o","u","t","u",".","b","e","/","d","Q","4"," ">>

\* the URLs of the calls of force_provider_embed
DecideUrls ==
    { UrlYoutube, Url_vimeo, Url_loom, Url_reddit, Url_redd_it, Url_tiktok,
      Url_custom, Url_youtube_no_id, Url_youtu_be_padded }

\* the provider fields of the form, and one the form does not offer
DecideChoices ==
    { "", "auto", "youtube", "reddit", "tiktok", "vimeo", "loom", "custom", "other" }

SomeMarkup == <<"<","b","l","o","c","k","q","u","o","t","e",">">>

\* what an oEmbed request gives: no answer (network error, timeout, a body
\* that is not JSON, no html field), an empty html field, markup
FetchOutcomes == { None, <<>>, SomeMarkup }

\* the URLs of the calls of normalize_embed: blank ones and those made of parts
ResolveUrls ==
    {<<>>, <<" ", " ">>} \cup
    { UrlText(pad, scheme, host, path, query) :
          pad \in UrlPads, scheme \in UrlSchemes, host \in UrlHosts,
          path \in UrlPaths, query \in UrlQueries }

ResolveCall ==
    \E url \in ResolveUrls :
        /\ nreq < MaxEmbedReqs
        /\ Begin(1, ResolveReq(url), "normalize_embed")

DecideCall ==
    \E provider \in DecideChoices, url \in DecideUrls, fetched \in FetchOutcomes :
        /\ nreq < MaxEmbedReqs
        /\ Begin(1, DecideReq(provider, url, fetched), "force_provider_embed")

NextEmbed ==
    \/ ResolveCall
    \/ DecideCall
    \/ resolve_call(1)
    \/ decide_call(1)
    \/ close_db(1)

SpecEmbed == Init /\ [][NextEmbed]_vars

\* the call force_provider_embed of process p has returned
DecideAnswered(p) ==
    /\ pc[p] = "done"
    /\ req[p].op = "force_provider_embed"

\* the oEmbed request of the call of process p gives markup
FetchSucceeds(p) == req[p].fetched \notin {None, <<>>}

\* C11: with provider choice auto or empty the result is normalize_embed's
\* provider and embed URL with empty markup when that provider is neither
\* reddit nor tiktok (auto with https://www.youtube.com/watch?v=abc123 gives
\* youtube, https://www.youtube.com/embed/abc123 and no markup); for reddit
\* and tiktok it is that provider with the fetched markup when the oEmbed
\* request succeeds and (custom, source URL, "") when it fails.
C11_AutoFollowsResolver ==
    \A p \in Procs :
        DecideAnswered(p) /\ req[p].provider \in {"", "auto"} =>
            LET ne == normalize_embed(req[p].source_url)
            IN  /\ ne[1] \notin {"reddit", "tiktok"} =>
                       resp[p].value = <<ne[1], ne[2], <<>>>>
                /\ ne[1] \in {"reddit", "tiktok"} /\ FetchSucceeds(p) =>
                       resp[p].value = <<ne[1], ne[2], req[p].fetched>>
                /\ ne[1] \in {"reddit", "tiktok"} /\ ~FetchSucceeds(p) =>
                       resp[p].value = <<"custom", Strip(req[p].source_url), <<>>>>
                /\ req[p].source_url = UrlYoutube =>
                       resp[p].value = <<"youtube", <<"h","t","t","p","s",":","/","/","w","w","w",".","y","o","u","t","u","b","e",".","c","o","m","/","e","m","b","e","d","/","a","b","c","1","2","3">>, <<>>>>

\* auto on a reddit URL whose oEmbed request fails has given custom
C11_Witness ==
    /\ DecideAnswered(1)
    /\ req[1].provider = "auto"
    /\ req[1].source_url = Url_reddit
    /\ req[1].fetched = None
    /\ resp[1].value = <<"custom", Url_reddit, <<>>>>

\* C12: with provider choice reddit or tiktok the oEmbed request of that
\* provider is made whatever the host of the URL; when it gives markup the
\* result is (chosen provider, source URL, markup), and when it fails in any
\* way (network error, timeout, body that is not JSON, no html field) nothing
\* is raised and the result is (custom, source URL, "").
C12_ExplicitOembedAlwaysFetches ==
    \A p \in Procs :
        DecideAnswered(p) /\ req[p].provider \in {"reddit", "tiktok"} =>
            /\ resp[p].status = 200
            /\ resp[p].calls = <<req[p].provider>>
            /\ resp[p].value =
                   IF FetchSucceeds(p)
                   THEN <<req[p].provider, Strip(req[p].source_url), req[p].fetched>>
                   ELSE <<"custom", Strip(req[p].source_url), <<>>>>

\* reddit chosen for a YouTube URL: the reddit oEmbed request was made and its
\* markup is in the result
C12_Witness ==
    /\ DecideAnswered(1)
    /\ req[1].provider = "reddit"
    /\ req[1].source_url = UrlYoutube
    /\ resp[1].calls = <<"reddit">>
    /\ resp[1].value = <<"reddit", UrlYoutube, SomeMarkup>>

\* C13: with provider choice P in {youtube, vimeo, loom} the result has
\* provider P and empty markup and no oEmbed request is made; the embed URL is
\* normalize_embed's URL when normalize_embed finds provider P, and the source
\* URL otherwise.
C13_ExplicitPlayerKeepsProvider ==
    \A p \in Procs :
        DecideAnswered(p) /\ req[p].provider \in {"youtube", "vimeo", "loom"} =>
            LET ne == normalize_embed(req[p].source_url)
            IN  /\ resp[p].calls = <<>>
                /\ resp[p].value[1] = req[p].provider
                /\ resp[p].value[3] = <<>>
                /\ resp[p].value[2] = IF ne[1] = req[p].provider THEN ne[2]
                                      ELSE Strip(req[p].source_url)

\* youtube chosen for a Vimeo URL: the result is youtube with the URL as given
C13_Witness ==
    /\ DecideAnswered(1)
    /\ req[1].provider = "youtube"
    /\ req[1].source_url = Url_vimeo
    /\ req[1].fetched = SomeMarkup
    /\ resp[1].calls = <<>>
    /\ resp[1].value = <<"youtube", Url_vimeo, <<>>>>

\* the call normalize_embed of process p has returned a value
ResolveAnswered(p) ==
    /\ pc[p] = "done"
    /\ req[p].op = "normalize_embed"
    /\ resp[p].kind = "value"

StartsWith(s, prefix) == Take(s, Len(prefix)) = prefix

\* Expect holds of all parts the URL is made of
ForParts(url, Expect(_, _, _, _)) ==
    \A pad \in UrlPads, scheme \in UrlSchemes, host \in UrlHosts :
        StartsWith(url, pad \o scheme \o host.text) =>
            \A path \in UrlPaths, query \in UrlQueries :
                url = UrlText(pad, scheme, host, path, query) =>
                    Expect(scheme, host, path, query)

HostHas(scheme, host, s) == Contains(UrlHostName(scheme, host), s)

\* the host is one the reddit and tiktok rules leave alone
PastOembedRules(scheme, host) ==
    /\ ~HostHas(scheme, host, Str_reddit_com)
    /\ ~HostHas(scheme, host, Str_redd_it)
    /\ ~HostHas(scheme, host, Str_tiktok_com)

\* the id of a youtube.com URL: v, or lacking it the /shorts/ segment
WatchOrShortsId(path, query) == IF query.v # <<>> THEN query.v ELSE path.shorts

\* C15 as stated: every URL whose host contains youtube.com with a non-empty
\* v=<id> or, lacking it, /shorts/<id>, and every URL whose host contains
\* youtu.be with a non-empty first path segment <id>, resolves to (youtube,
\* https://www.youtube.com/embed/<id>), provided the host contains neither
\* reddit.com, redd.it nor tiktok.com.
C15_YoutubeUrlsResolve ==
    \A p \in Procs :
        ResolveAnswered(p) =>
            ForParts(req[p].source_url,
                LAMBDA scheme, host, path, query :
                    /\ (/\ PastOembedRules(scheme, host)
                        /\ HostHas(scheme, host, Str_youtube_com)
                        /\ WatchOrShortsId(path, query) # <<>>)
                       => resp[p].value =
                            <<"youtube", YoutubeEmbedPrefix \o WatchOrShortsId(path, query)>>
                    /\ (/\ PastOembedRules(scheme, host)
                        /\ HostHas(scheme, host, Str_youtu_be)
                        /\ path.first # <<>>)
                       => resp[p].value = <<"youtube", YoutubeEmbedPrefix \o path.first>>)

\* C15, amended: a URL whose host contains youtube.com with a non-empty
\* v=<id> or, lacking it, /shorts/<id> resolves to (youtube,
\* https://www.youtube.com/embed/<id>); a URL whose host contains youtu.be
\* with a non-empty first path segment <id> resolves to (youtube,
\* https://www.youtube.com/embed/<id>) unless the host also contains
\* youtube.com and the URL carries a v or /shorts/ id, which then wins; both
\* provided the host contains neither reddit.com, redd.it nor tiktok.com.
C15_YoutubeRulesInOrder ==
    \A p \in Procs :
        ResolveAnswered(p) =>
            ForParts(req[p].source_url,
                LAMBDA scheme, host, path, query :
                    /\ (/\ PastOembedRules(scheme, host)
                        /\ HostHas(scheme, host, Str_youtube_com)
                        /\ WatchOrShortsId(path, query) # <<>>)
                       => resp[p].value =
                            <<"youtube", YoutubeEmbedPrefix \o WatchOrShortsId(path, query)>>
                    /\ (/\ PastOembedRules(scheme, host)
                        /\ HostHas(scheme, host, Str_youtu_be)
                        /\ path.first # <<>>
                        /\ ~(/\ HostHas(scheme, host, Str_youtube_com)
                             /\ WatchOrShortsId(path, query) # <<>>))
                       => resp[p].value = <<"youtube", YoutubeEmbedPrefix \o path.first>>)

\* https://YouTube.COM/shorts/s1?v= , whose v is blank, has resolved to the
\* embed address of s1
C15_Witness ==
    /\ ResolveAnswered(1)
    /\ req[1].source_url =
           <<"h","t","t","p","s",":","/","/","Y","o","u","T","u","b","e",".","C","O","M",
             "/","s","h","o","r","t","s","/","s","1","?","v","=">>
    /\ resp[1].value = <<"youtube", YoutubeEmbedPrefix \o <<"s","1">>>>

\* a youtube.com URL past the reddit and tiktok rules in which the youtube.com
\* rule finds no id
YoutubeHostWithoutId(scheme, host, path, query) ==
    /\ PastOembedRules(scheme, host)
    /\ HostHas(scheme, host, Str_youtube_com)
    /\ WatchOrShortsId(path, query) = <<>>

\* C16 as stated: every non-blank URL whose host contains youtube.com (and
\* neither reddit.com, redd.it nor tiktok.com) and from which no id can be
\* extracted (no v parameter, no /shorts/<id> path) resolves to (custom,
\* the URL itself).
C16_YoutubeWithoutIdIsCustom ==
    \A p \in Procs :
        ResolveAnswered(p) =>
            ForParts(req[p].source_url,
                LAMBDA scheme, host, path, query :
                    YoutubeHostWithoutId(scheme, host, path, query) =>
                        resp[p].value =
                            <<"custom", UrlText(<<>>, scheme, host, path, query)>>)

\* C16, amended: such a URL goes on to the later rules in their order: a host
\* that also contains youtu.be with a non-empty first path segment gives
\* youtube with that segment, else a host that also contains vimeo.com with
\* digits after a / gives vimeo, else a host that also contains loom.com with
\* a /share/<id> path gives loom; only when none of them applies is the
\* result (custom, the URL itself).
C16_YoutubeWithoutIdFallsThrough ==
    \A p \in Procs :
        ResolveAnswered(p) =>
            ForParts(req[p].source_url,
                LAMBDA scheme, host, path, query :
                    YoutubeHostWithoutId(scheme, host, path, query) =>
                        resp[p].value =
                            IF HostHas(scheme, host, Str_youtu_be) /\ path.first # <<>>
                            THEN <<"youtube", YoutubeEmbedPrefix \o path.first>>
                            ELSE IF HostHas(scheme, host, Str_vimeo_com) /\ path.digits # <<>>
                            THEN <<"vimeo", VimeoEmbedPrefix \o path.digits>>
                            ELSE IF HostHas(scheme, host, Str_loom_com) /\ path.share # <<>>
                            THEN <<"loom", LoomEmbedPrefix \o path.share>>
                            ELSE <<"custom", UrlText(<<>>, scheme, host, path, query)>>)

\* https://www.youtube.com/watch?list=PL1 , given with white space around it,
\* has resolved to custom with the URL itself
C16_Witness ==
    /\ ResolveAnswered(1)
    /\ req[1].source_url =
           <<" ","h","t","t","p","s",":","/","/","w","w","w",".","y","o","u","t","u","b","e",
             ".","c","o","m","/","w","a","t","c","h","?","l","i","s","t","=","P","L","1"," ">>
    /\ resp[1].value =
           <<"custom",
             <<"h","t","t","p","s",":","/","/","w","w","w",".","y","o","u","t","u","b","e",
               ".","c","o","m","/","w","a","t","c","h","?","l","i","s","t","=","P","L","1">>>>

(***************************************************************************)
(* What add and edit store: /admin/add and /admin/video/<id>/edit with     *)
(* every provider choice and every oEmbed outcome.  The edits leave the    *)
(* playlist fields empty, so the playlist steps of the edit are not        *)
(* entered.                                                                *)
(***************************************************************************)
MaxStoreReqs == 2

MaxStoreVideos == 1

StoreUrls == { UrlYoutube, Url_reddit, Url_custom }

StoreChoices == { "", "youtube", "reddit", "tiktok", "other" }

StoreAdd ==
    \E provider \in StoreChoices, url \in StoreUrls, fetched \in FetchOutcomes :
        /\ nreq < MaxStoreReqs
        /\ seqs.videos <= MaxStoreVideos
        /\ Begin(1, AddReq(1, "POST", SomeTitle, url, provider, fetched), "admin_add")

StoreEdit ==
    \E v \in 1..MaxStoreVideos, provider \in StoreChoices, url \in StoreUrls,
       fetched \in FetchOutcomes :
        /\ nreq < MaxStoreReqs
        /\ Begin(1, EditReq(1, v, "POST", SomeTitle, url, provider, fetched,
                            <<>>, <<>>, <<>>), "admin_video_edit")

NextStore ==
    \/ StoreAdd
    \/ StoreEdit
    \/ AddSteps(1)
    \/ admin_video_edit(1)
    \/ edit_read(1)
    \/ edit_update(1)
    \/ edit_commit(1)
    \/ close_db(1)

SpecStore == Init /\ [][NextStore]_vars

\* the values of videos.provider
Providers == { "youtube", "reddit", "tiktok", "vimeo", "loom", "custom" }

\* the row is one of a known provider, with markup only for reddit and tiktok
WellFormedEmbed(row) ==
    /\ row.provider \in Providers
    /\ row.embed_html # <<>> => row.provider \in {"reddit", "tiktok"}

\* C14: after any add or edit, with any provider choice and any oEmbed
\* outcome, every stored video has a provider among youtube, reddit, tiktok,
\* vimeo, loom and custom, and its embed_html is non-empty only if the
\* provider is reddit or tiktok; this holds of the committed rows and of the
\* rows each request sees.
C14_StoredEmbedsWellFormed ==
    /\ \A v \in DOMAIN db.videos : WellFormedEmbed(db.videos[v])
    /\ \A p \in Procs :
           \A v \in DOMAIN View(p).videos : WellFormedEmbed(View(p).videos[v])

\* a video stored as reddit with markup has been edited to youtube and its
\* markup is gone
C14_Witness ==
    /\ pc[1] = "done"
    /\ req[1].op = "admin_video_edit"
    /\ resp[1].flash = "video_updated"
    /\ 1 \in DOMAIN start[1].videos
    /\ start[1].videos[1].provider = "reddit"
    /\ start[1].videos[1].embed_html = SomeMarkup
    /\ db.videos[1].provider = "youtube"
    /\ db.videos[1].embed_html = <<>>

(***************************************************************************)
(* The users administration: an administrator, or whoever has been made    *)
(* one, edits users                                                        *)
(***************************************************************************)
MaxUserReqs == 2

\* users.id of the form's target: the main admin, the registered user, nobody
UserIds == {1, 2, 3}

\* the username field: blank, the registered user's, the main admin's in two
\* spellings, a new one
UsernameFields ==
    { <<>>, <<"b","o","b">>, ADMIN_USERNAME, <<"A","d","m","i","n">>, <<"e","v","e">> }

PasswordFields == { <<>>, <<"p","w">> }

UsersEdit ==
    \E u \in Sessions, target \in UserIds, method \in {"GET", "POST"},
       username \in UsernameFields, password \in PasswordFields,
       is_admin_field \in {"on", ""} :
        /\ nreq < MaxUserReqs
        /\ Begin(1, UserEditReq(u, target, method, username, password, is_admin_field),
                 "admin_user_edit")

NextUsers ==
    \/ UsersEdit
    \/ UserEditSteps(1)
    \/ close_db(1)

SpecUsers == Init /\ [][NextUsers]_vars

\* the users rows of the main admin in tables d
MainAdmins(d) == {u \in DOMAIN d.users : d.users[u].username = ADMIN_USERNAME}

\* the POST edit of process p is against the main admin and has been answered
MainAdminEditAnswered(p) ==
    /\ pc[p] = "done"
    /\ req[p].op = "admin_user_edit"
    /\ req[p].method = "POST"
    /\ req[p].user_id \in MainAdmins(start[p])

\* C17: a POST to /admin/users/<id>/edit against the main admin is rejected,
\* whoever sends it and whatever the form holds, and leaves the row's
\* username, password_hash and is_admin as they were; so in every state the
\* main admin exists with is_admin = 1.
C17_MainAdminImmutable ==
    /\ \A p \in Procs :
           MainAdminEditAnswered(p) =>
               /\ \/ resp[p].status = 403
                  \/ resp[p].kind = "redirect" /\ resp[p].flash = "cannot_edit_main_admin"
               /\ db.users[req[p].user_id] = start[p].users[req[p].user_id]
    /\ MainAdmins(db) # {}
    /\ \A u \in MainAdmins(db) :
           /\ db.users[u].is_admin = 1
           /\ db.users[u] = InitDb.users[u]

\* the registered user, made an administrator by an earlier edit, has posted
\* an edit of the main admin that would rename and demote it; it was rejected
C17_Witness ==
    /\ MainAdminEditAnswered(1)
    /\ req[1].session_user = 2
    /\ req[1].username = <<"e","v","e">>
    /\ req[1].password = <<"p","w">>
    /\ req[1].is_admin = ""
    /\ db.users[2].is_admin = 1
    /\ resp[1].flash = "cannot_edit_main_admin"
    /\ db.users[1] = InitDb.users[1]

(***************************************************************************)
(* Deleting a video: the tables hold two videos, the second with rows of   *)
(* every kind and the first with rows of the kinds drawn, and one request  *)
(* deletes, likes or comments                                              *)
(***************************************************************************)
MaxCascadeReqs == 1

RowKinds == {"comment", "history", "like", "item"}

\* the rows of the given kinds that reference video v
RowsOf(kinds, v) ==
    [video_likes    |-> IF "like" \in kinds THEN {<<1, v>>, <<2, v>>} ELSE {},
     watch_history  |-> IF "history" \in kinds THEN <<2, v>> :> 3 ELSE <<>>,
     comments       |-> IF "comment" \in kinds
                        THEN <<CommentRow(v, 2, <<"b","o","b">>, SomeBody),
                               CommentRow(v, 0, <<"A","n","o","n","y","m">>, SomeBody)>>
                        ELSE <<>>,
     playlist_items |-> IF "item" \in kinds THEN <<1, v>> :> v ELSE <<>>]

CascadeDb(kinds) ==
    LET e  == force_provider_embed("auto", UrlYoutube, None)
        r1 == RowsOf(kinds, 1)
        r2 == RowsOf(RowKinds, 2)
    IN  [InitDb EXCEPT
            !.videos = [v \in {1, 2} |->
                            [VideoRow(e[1], UrlYoutube, e[2], e[3]) EXCEPT
                                !.likes = IF v = 1 THEN Cardinality(r1.video_likes)
                                          ELSE Cardinality(r2.video_likes)]],
            !.video_likes = r1.video_likes \cup r2.video_likes,
            !.watch_history = r1.watch_history @@ r2.watch_history,
            !.comments = <<r2.comments[1]>> \o r1.comments \o <<r2.comments[2]>>,
            !.playlists = {1},
            !.playlist_items = r1.playlist_items @@ r2.playlist_items]

InitCascade ==
    /\ backend \in {"sqlite", "pg"}
    /\ \E kinds \in SUBSET RowKinds : db = CascadeDb(kinds)
    /\ seqs = [videos |-> 3, playlists |-> 2]
    /\ pc = [p \in Procs |-> "idle"]
    /\ req = [p \in Procs |-> NoReq]
    /\ loc = [p \in Procs |-> NoLoc]
    /\ tx = [p \in Procs |-> <<>>]
    /\ locks = [p \in Procs |-> {}]
    /\ aborted = [p \in Procs |-> FALSE]
    /\ resp = [p \in Procs |-> NoResp]
    /\ start = [p \in Procs |-> InitDb]
    /\ nreq = 0

CascadeDelete ==
    \E u \in {1, 2}, v \in 1..3 :
        nreq < MaxCascadeReqs /\ Begin(1, DeleteReq(u, v), "admin_delete")

CascadeLike ==
    \E u \in {0, 2}, v \in 1..3 :
        nreq < MaxCascadeReqs /\ Begin(1, LikeReq(u, v, FALSE), "like_video")

CascadeComment ==
    \E u \in {0, 2}, v \in 1..3 :
        nreq < MaxCascadeReqs /\ Begin(1, CommentReq(u, "", v, <<>>, SomeBody), "comment")

NextCascade ==
    \/ CascadeDelete
    \/ CascadeLike
    \/ CascadeComment
    \/ DeleteSteps(1)
    \/ LikeSteps(1)
    \/ CommentSteps(1)
    \/ close_db(1)

SpecCascade == InitCascade /\ [][NextCascade]_vars

\* the videos referenced by rows of comments, watch_history, video_likes and
\* playlist_items in tables d
Referenced(d) ==
    {d.comments[i].video_id : i \in DOMAIN d.comments}
        \cup {k[2] : k \in DOMAIN d.watch_history}
        \cup {r[2] : r \in d.video_likes}
        \cup {k[2] : k \in DOMAIN d.playlist_items}

\* the delete of process p has been carried out
DeleteAnswered(p) ==
    /\ pc[p] = "done"
    /\ req[p].op = "admin_delete"
    /\ resp[p].flash = "video_deleted"

\* C18: when a video has been deleted no comments, watch_history, video_likes
\* or playlist_items row references it any more; and in every state every
\* such row references a video that exists, in the committed tables and in
\* those each request sees.
C18_DeleteCascades ==
    /\ Referenced(db) \subseteq DOMAIN db.videos
    /\ \A p \in Procs :
           /\ Referenced(View(p)) \subseteq DOMAIN View(p).videos
           /\ DeleteAnswered(p) =>
                  /\ req[p].video_id \notin DOMAIN db.videos
                  /\ req[p].video_id \notin Referenced(db)

\* video 1 had comments, a history row, likes and a playlist item; it has been
\* deleted, they are gone and those of video 2 remain
C18_Witness ==
    /\ DeleteAnswered(1)
    /\ req[1].video_id = 1
    /\ start[1] = CascadeDb(RowKinds)
    /\ Referenced(db) = {2}
    /\ Len(db.comments) = 2
    /\ db.video_likes = {<<1, 2>>, <<2, 2>>}
    /\ DOMAIN db.watch_history = {<<2, 2>>}
    /\ DOMAIN db.playlist_items = {<<1, 2>>}

(***************************************************************************)
(* Two administrators edit the same video at the same time: the tables     *)
(* hold video 1 and the playlists 1 and 2, with video 1 in playlist 1 or   *)
(* in none                                                                 *)
(***************************************************************************)
MaxEditReqs == 2

EditsDb(member) ==
    LET e == force_provider_embed("auto", UrlYoutube, None)
    IN  [InitDb EXCEPT
            !.videos = 1 :> VideoRow(e[1], UrlYoutube, e[2], e[3]),
            !.playlists = {1, 2},
            !.playlist_items = IF member THEN <<1, 1>> :> 1 ELSE <<>>]

InitEdits ==
    /\ backend \in {"sqlite", "pg"}
    /\ \E member \in BOOLEAN : db = EditsDb(member)
    /\ seqs = [videos |-> 2, playlists |-> 3]
    /\ pc = [p \in Procs |-> "idle"]
    /\ req = [p \in Procs |-> NoReq]
    /\ loc = [p \in Procs |-> NoLoc]
    /\ tx = [p \in Procs |-> <<>>]
    /\ locks = [p \in Procs |-> {}]
    /\ aborted = [p \in Procs |-> FALSE]
    /\ resp = [p \in Procs |-> NoResp]
    /\ start = [p \in Procs |-> InitDb]
    /\ nreq = 0

\* an edit that picks from the playlist_id select
EditsPick ==
    \E p \in Procs, f \in {<<"n","o","n","e">>, <<"1">>, <<"2">>} :
        /\ nreq < MaxEditReqs
        /\ Begin(p, EditReq(1, 1, "POST", SomeTitle, UrlYoutube, "", None,
                            f, <<>>, <<>>), "admin_video_edit")

\* an edit that names a new playlist
EditsNew ==
    \E p \in Procs :
        /\ nreq < MaxEditReqs
        /\ Begin(p, EditReq(1, 1, "POST", SomeTitle, UrlYoutube, "", None,
                            <<>>, PlaylistName, <<>>), "admin_video_edit")

NextEdits ==
    \/ EditsPick
    \/ EditsNew
    \/ \E p \in Procs : EditSteps(p)
    \/ \E p \in Procs : close_db(p)

SpecEdits == InitEdits /\ [][NextEdits]_vars

\* both edits of video v have committed, and each had read the membership the
\* video had before either of them wrote
BothEditsSaved(v) ==
    /\ \A p \in Procs :
           /\ EditSaved(p)
           /\ req[p].video_id = v
           /\ start[p] = start[1]
           /\ loc[p].current_pl \in get_video_playlist(start[1], v)

\* C19 as stated: when two edits of the same video run concurrently, each
\* reading the video's playlist membership before either writes, the video is
\* in at most one playlist after both have committed, in every interleaving.
C19_ConcurrentEditsOnePlaylist ==
    \A v \in DOMAIN db.videos :
        BothEditsSaved(v) => Cardinality(ItemsOf(db, v)) <= 1

\* a page load with noview=1 by a signed-in user of a video that exists has
\* been answered
NoviewWatched(p) ==
    /\ pc[p] = "done"
    /\ req[p].op = "watch"
    /\ req[p].noview
    /\ req[p].video_id \in DOMAIN start[p].videos
    /\ req[p].session_user \in DOMAIN start[p].users

\* C20: noview=1 suppresses only the views counter.  A watch page load with
\* noview=1 by a signed-in user leaves views as it was and still adds 1 to
\* the user's watch_count for the video; like and comment redirect to the
\* watch page with noview=1, so the page load that follows them adds 1 to
\* watch_count and nothing to views.
C20_NoviewStillCountsHistory ==
    \A p \in Procs :
        /\ NoviewWatched(p) =>
               LET u == req[p].session_user
                   v == req[p].video_id
               IN  /\ resp[p].status = 200
                   /\ db.videos[v].views = start[p].videos[v].views
                   /\ WatchCount(db, u, v) = WatchCount(start[p], u, v) + 1
        /\ (pc[p] = "done" /\ req[p].op \in {"like", "comment"}
                /\ resp[p].kind = "redirect") =>
               (resp[p].location = "watch" /\ resp[p].noview)
        /\ req[p].after \in {"like", "comment"} => req[p].noview

\* the page load that followed a like by a user who had watched the video
\* once: watch_count is 2 and views is still 1
C20_Witness ==
    /\ NoviewWatched(1)
    /\ req[1].after = "like"
    /\ req[1].session_user = 2
    /\ start[1].videos[req[1].video_id].views = 1
    /\ db.videos[req[1].video_id].views = 1
    /\ WatchCount(start[1], 2, req[1].video_id) = 1
    /\ WatchCount(db, 2, req[1].video_id) = 2

\* process p has answered a like of a pair whose row existed when the request
\* began, on Postgres
PgRepeatLikeAnswered(p) ==
    /\ IS_PG
    /\ LikeAnswered(p)
    /\ req[p].session_user \in DOMAIN start[p].users
    /\ <<req[p].session_user, req[p].video_id>> \in start[p].video_likes

\* C22 as stated: on Postgres a repeated like by the same signed-in user
\* completes: after the unique violation is caught the read of the likes
\* counter runs on a usable connection, and the call answers ok with
\* liked = true and the unchanged count (the plain redirect for a form post),
\* never a server error.
C22_PgRepeatLikeCompletes ==
    \A p \in Procs :
        PgRepeatLikeAnswered(p) =>
            /\ resp[p].status # 500
            /\ req[p].wants_json =>
                   /\ resp[p].status = 200
                   /\ resp[p].ok
                   /\ resp[p].liked
                   /\ resp[p].likes = LikesOf(start[p], req[p].video_id)

(***************************************************************************)
(* A viewer walks a playlist: from a member with the smallest position,    *)
(* get_next_in_playlist_id is called on each video it returns until it     *)
(* returns None                                                            *)
(***************************************************************************)
MaxWalkReqs == 1

\* the videos of playlist pl in tables d
MembersOf(d, pl) == {k[2] : k \in {k \in DOMAIN d.playlist_items : k[1] = pl}}

\* the first call of a walk of playlist pl, on its member v
WalkReq(pl, v) == [NextReq(pl, v) EXCEPT !.op = "walk"]

WalkBegin ==
    \E pl \in NextPlaylists, v \in NextVideoIds :
        /\ nreq < MaxWalkReqs
        /\ v \in MembersOf(db, pl)
        /\ \A m \in MembersOf(db, pl) :
               db.playlist_items[<<pl, v>>] <= db.playlist_items[<<pl, m>>]
        /\ Begin(1, WalkReq(pl, v), "get_next_in_playlist_id")

\* the viewer goes on to the video the call returned and asks for its next
walk_follow(p) ==
    /\ pc[p] = "done"
    /\ req[p].op = "walk"
    /\ resp[p].next # 0
    /\ pc' = [pc EXCEPT ![p] = "get_next_in_playlist_id"]
    /\ req' = [req EXCEPT ![p].video_id = resp[p].next,
                          ![p].visited = Append(@, req[p].video_id)]
    /\ resp' = [resp EXCEPT ![p] = NoResp]
    /\ UNCHANGED <<backend, db, seqs, loc, tx, locks, aborted, start, nreq>>

NextWalk ==
    \/ WalkBegin
    \/ next_in_playlist(1)
    \/ walk_follow(1)
    \/ close_db(1)

SpecWalk == InitNext /\ [][NextWalk]_vars

\* the walk of process p has come to its end
WalkEnded(p) ==
    /\ pc[p] = "done"
    /\ req[p].op = "walk"
    /\ resp[p].next = 0

\* the videos the walk of process p has been on, in order
WalkOf(p) == Append(req[p].visited, req[p].video_id)

\* C23 as stated: for every playlist, starting from a member with the
\* smallest position and following next until it returns none visits every
\* member of the playlist exactly once, whatever positions the members have
\* (gaps and ties included).
C23_WalkVisitsEveryMemberOnce ==
    \A p \in Procs :
        WalkEnded(p) =>
            /\ {WalkOf(p)[i] : i \in DOMAIN WalkOf(p)} = MembersOf(db, req[p].playlist)
            /\ Len(WalkOf(p)) = Cardinality(MembersOf(db, req[p].playlist))

(***************************************************************************)
(* A like races with the deletion of the video: video 1 exists, the        *)
(* registered user likes it while the administrator deletes it             *)
(***************************************************************************)
MaxRaceReqs == 2

RaceLike ==
    \E p \in Procs, j \in BOOLEAN :
        nreq < MaxRaceReqs /\ Begin(p, LikeReq(2, 1, j), "like_video")

RaceDelete ==
    \E p \in Procs :
        nreq < MaxRaceReqs /\ Begin(p, DeleteReq(1, 1), "admin_delete")

NextRace ==
    \/ RaceLike
    \/ RaceDelete
    \/ \E p \in Procs : LikeSteps(p)
    \/ \E p \in Procs : DeleteSteps(p)
    \/ \E p \in Procs : close_db(p)

SpecRace == InitEdits /\ [][NextRace]_vars

\* the like of process p returns in this step, reporting liked = true
LikeReturnsLiked(p) ==
    /\ pc[p] # "done"
    /\ pc'[p] = "done"
    /\ req[p].op = "like"
    /\ resp'[p].liked

\* C24 as stated: a like call reports liked = true only if the video_likes
\* row of the (user, video) pair exists when the call returns, also when an
\* administrator deletes the video between the handler's existence check and
\* its insert (the insert then fails on the foreign key, not on uniqueness).
C24_LikedOnlyIfRowExists ==
    [][\A p \in Procs :
           LikeReturnsLiked(p) =>
               <<req[p].session_user, req[p].video_id>> \in db'.video_likes]_vars

(***************************************************************************)
(* Accounts: visitors register and administrators edit users              *)
(***************************************************************************)
MaxAccountReqs == 2

AccountsRegister ==
    \E method \in {"GET", "POST"}, username \in UsernameFields,
       password \in PasswordFields, password2 \in PasswordFields :
        /\ nreq < MaxAccountReqs
        /\ Begin(1, RegisterReq(method, username, password, password2), "register")

AccountsEdit ==
    \E u \in Sessions, target \in UserIds, username \in UsernameFields,
       is_admin_field \in {"on", ""} :
        /\ nreq < MaxAccountReqs
        /\ Begin(1, UserEditReq(u, target, "POST", username, <<>>, is_admin_field),
                 "admin_user_edit")

NextAccounts ==
    \/ AccountsRegister
    \/ AccountsEdit
    \/ RegisterSteps(1)
    \/ UserEditSteps(1)
    \/ close_db(1)

SpecAccounts == Init /\ [][NextAccounts]_vars

\* the users the main-admin lock of the edit form applies to in tables d
LockedUsers(d) == {u \in DOMAIN d.users : is_main_admin(d.users[u].username)}

\* C21 as stated: in every state reached by register and admin user-edit
\* operations at most one user has a username equal to the reserved admin
\* name under case-insensitive comparison: the only user the main-admin lock
\* applies to is the provisioned main admin.
C21_OneReservedName ==
    /\ Cardinality(LockedUsers(db)) <= 1
    /\ \A u \in LockedUsers(db) : db.users[u] = InitDb.users[u]

(***************************************************************************)
(* The admin pages, requested by administrators and by everyone else       *)
(***************************************************************************)
MaxAdminReqs == 2

AdminOps == {"admin_add", "admin_video_edit", "admin_delete", "admin_users",
             "admin_user_edit"}

AdminAdd ==
    \E u \in Sessions, method \in {"GET", "POST"} :
        /\ nreq < MaxAdminReqs
        /\ Begin(1, AddReq(u, method, SomeTitle, UrlYoutube, "", None), "admin_add")

AdminEdit ==
    \E u \in Sessions, method \in {"GET", "POST"}, name \in {<<>>, PlaylistName} :
        /\ nreq < MaxAdminReqs
        /\ Begin(1, EditReq(u, 1, method, SomeTitle, Url_custom, "", None,
                            <<>>, name, <<>>), "admin_video_edit")

AdminDelete ==
    \E u \in Sessions :
        nreq < MaxAdminReqs /\ Begin(1, DeleteReq(u, 1), "admin_delete")

AdminUsers ==
    \E u \in Sessions :
        nreq < MaxAdminReqs /\ Begin(1, UsersReq(u), "admin_users")

AdminUserEdit ==
    \E u \in Sessions, method \in {"GET", "POST"},
       username \in {<<>>, <<"e","v","e">>}, is_admin_field \in {"on", ""} :
        /\ nreq < MaxAdminReqs
        /\ Begin(1, UserEditReq(u, 2, method, username, <<"p","w">>, is_admin_field),
                 "admin_user_edit")

NextAdmin ==
    \/ AdminAdd
    \/ AdminEdit
    \/ AdminDelete
    \/ AdminUsers
    \/ AdminUserEdit
    \/ AddSteps(1)
    \/ EditSteps(1)
    \/ DeleteSteps(1)
    \/ admin_users(1)
    \/ UserEditSteps(1)
    \/ close_db(1)

SpecAdmin == InitEdits /\ [][NextAdmin]_vars

\* process p has answered a request of an admin page sent by a caller who
\* was not signed in, or whose users row had is_admin = 0
OutsiderAnswered(p) ==
    /\ pc[p] = "done"
    /\ req[p].op \in AdminOps
    /\ LET u == req[p].session_user
       IN  \/ u = 0
           \/ u \notin DOMAIN start[p].users
           \/ start[p].users[u].is_admin = 0

\* C25: every admin operation (add video, edit video, delete video, list
\* users, edit user) requested by a caller who is not signed in or whose user
\* has is_admin = 0 aborts with 403 before any write: videos, playlists,
\* playlist items and users are as they were when the request began.
C25_OutsidersGet403 ==
    \A p \in Procs :
        OutsiderAnswered(p) =>
            /\ resp[p] = Abort(403)
            /\ tx[p] = <<>>
            /\ db.videos = start[p].videos
            /\ db.playlists = start[p].playlists
            /\ db.playlist_items = start[p].playlist_items
            /\ db.users = start[p].users

\* the registered user, not an administrator, has asked to delete the stored
\* video and got 403; the video is still there
C25_Witness ==
    /\ OutsiderAnswered(1)
    /\ req[1].op = "admin_delete"
    /\ req[1].session_user = 2
    /\ resp[1].status = 403
    /\ req[1].video_id \in DOMAIN db.videos

====
